---- MODULE Spec2Model ----
(***************************************************************************)
(* Reflow profiler (src/Reflow.py): the per-component datasheet pipeline   *)
(* _scour_datasheet_and_extract with its result cache, and the component   *)
(* agent _run_component_agent_mpn_only that runs it for the identifiers of *)
(* the loaded BOM, the BOM ingestion _parse_excel_preview and the handlers *)
(* of do_POST over the session state _STATE, as a state machine.           *)
(*                                                                         *)
(* Python str values are TLA+ strings.  TLA+ strings are ASCII, so the two *)
(* non-ASCII characters the source writes are spelled EnDash and Degree.   *)
(***************************************************************************)
EXTENDS Integers, Sequences, FiniteSets, TLC

(***************************************************************************)
(* Bounds of the model.                                                    *)
(***************************************************************************)
\* longest sequence of result links in one search response
MaxLinks == 2
\* cap on the per-identifier count of resolutions (a counter of the model)
MaxRuns == 2

(***************************************************************************)
(* Python string operations used by the source.                            *)
(***************************************************************************)
Whitespace == {" ", "\t", "\n"}

Uppers == "ABCDEFGHIJKLMNOPQRSTUVWXYZ"

Lowers == "abcdefghijklmnopqrstuvwxyz"

\* the character c (a string of length 1) lowercased
LowerChar(c) ==
    IF \E i \in 1..Len(Uppers) : SubSeq(Uppers, i, i) = c
    THEN LET i == CHOOSE i \in 1..Len(Uppers) : SubSeq(Uppers, i, i) = c
         IN  SubSeq(Lowers, i, i)
    ELSE c

RECURSIVE lower(_)
\* str.lower()
lower(s) == IF s = "" THEN "" ELSE LowerChar(Head(s)) \o lower(Tail(s))

RECURSIVE lstrip(_)
lstrip(s) == IF s # "" /\ Head(s) \in Whitespace THEN lstrip(Tail(s)) ELSE s

RECURSIVE rstrip(_)
rstrip(s) ==
    IF s # "" /\ SubSeq(s, Len(s), Len(s)) \in Whitespace
    THEN rstrip(SubSeq(s, 1, Len(s) - 1))
    ELSE s

\* str.strip()
strip(s) == rstrip(lstrip(s))

\* s.startswith(p)
startswith(s, p) == Len(s) >= Len(p) /\ SubSeq(s, 1, Len(p)) = p

\* p in s
contains(s, p) ==
    \E i \in 1..(Len(s) - Len(p) + 1) : SubSeq(s, i, i + Len(p) - 1) = p

RECURSIVE replace(_, _, _)
\* s.replace(old, new), old non-empty: leftmost non-overlapping occurrences
replace(s, old, new) ==
    IF Len(s) < Len(old) THEN s
    ELSE IF SubSeq(s, 1, Len(old)) = old
         THEN new \o replace(SubSeq(s, Len(old) + 1, Len(s)), old, new)
         ELSE Head(s) \o replace(Tail(s), old, new)

(***************************************************************************)
(* Result records (lines 827-857).                                         *)
(***************************************************************************)
NA == "NA"

\* the en dash U+2013 that norm_dash writes
EnDash == "~"

\* the degree sign U+00B0
Degree == "^"

FieldNames ==
    <<"tp_c", "time_within_5c_of_tp_s", "tal_s", "ramp_up_c_per_s",
      "cool_down_c_per_s">>

Statuses == {"ok", "mpn_na", "not_found", "no_reflow_info", "error_or_blocked"}

\* variant of _is_na_mpn: the comparison without lower()
_is_na_mpn_case_sensitive(mpn) ==
    LET v == strip(mpn)
    IN  IF v = "" THEN TRUE ELSE v \in {"na", "n/a", "tbd", "unknown", "-"}

\* variant of _is_na_mpn: only the empty identifier is a placeholder
_is_na_mpn_empty_only(mpn) == strip(mpn) = ""

\* _is_na_mpn; every caller passes a str, so the None branch never runs
_is_na_mpn(mpn) ==
    LET v == strip(mpn)
    IN  IF v = "" THEN TRUE ELSE lower(v) \in {"na", "n/a", "tbd", "unknown", "-"}

\* variant of _na_reflow_result: empty strings in place of NA
_na_reflow_result_blank(mpn, status) ==
    [mpn |-> mpn, status |-> status,
     reflow |-> [k \in {FieldNames[i] : i \in 1..Len(FieldNames)} |-> ""],
     evidence |-> [source_url |-> NA, snippet |-> NA]]

_na_reflow_result(mpn, status) ==
    [mpn |-> mpn, status |-> status,
     reflow |-> [k \in {FieldNames[i] : i \in 1..Len(FieldNames)} |-> NA],
     evidence |-> [source_url |-> NA, snippet |-> NA]]

(***************************************************************************)
(* The network (lines 860-871).  _http_get either returns the body or      *)
(* raises: urllib's URLError (refused, blocked, HTTP error status) or a    *)
(* socket timeout.  What the remote side answers is the environment's      *)
(* choice, made when the request is issued.                                *)
(***************************************************************************)
HttpErrors == {"timeout", "urlerror"}

\* the outcome of a call that may raise: the value returned, or the
\* exception that left it
Returned(v) == [raised |-> FALSE, exc |-> "", value |-> v]

Raised(e, v) == [raised |-> TRUE, exc |-> e, value |-> v]

(***************************************************************************)
(* Candidate resolver (lines 874-904).  A search response is the sequence  *)
(* of hrefs of its result__a anchors, in page order.                       *)
(***************************************************************************)
max_results == 6

\* q = quote_plus(f'{mpn} datasheet pdf reflow Tp TAL'); the identifiers
\* of the model need no percent-escapes
SearchUrl(mpn) ==
    "https://duckduckgo.com/html/?q=" \o replace(mpn, " ", "+")
        \o "+datasheet+pdf+reflow+Tp+TAL"

RECURSIVE HarvestLinksNoLimit(_, _, _)
\* variant of HarvestLinks: the loop never breaks
HarvestLinksNoLimit(links, out, limit) ==
    IF links = <<>> THEN out
    ELSE HarvestLinksNoLimit(Tail(links),
                             IF startswith(Head(links), "http")
                             THEN Append(out, Head(links)) ELSE out,
                             limit)

RECURSIVE HarvestLinks(_, _, _)
\* the loop of lines 887-893 over links, with out collected so far
HarvestLinks(links, out, limit) ==
    IF links = <<>> THEN out
    ELSE LET href == Head(links)
             out1 == IF startswith(href, "http") THEN Append(out, href) ELSE out
         IN  IF Len(out1) >= limit THEN out1
             ELSE HarvestLinks(Tail(links), out1, limit)

\* variant of _search_candidate_urls: a failed request gives an empty list
_search_candidate_urls_swallow(resp) ==
    IF resp.kind \in HttpErrors
    THEN Returned(<<>>)
    ELSE Returned(HarvestLinks(resp.links, <<>>, max_results))

\* resp: what _http_get(url, timeout=12) did; its exception is not caught here
_search_candidate_urls(resp) ==
    IF resp.kind \in HttpErrors
    THEN Raised(resp.kind, <<>>)
    ELSE Returned(HarvestLinks(resp.links, <<>>, max_results))

\* Python's None, for a value that is otherwise a str
None == ""

\* variant of _pick_pdf_link: the first URL, whatever it names
_pick_pdf_link_first(urls) == IF urls # <<>> THEN urls[1] ELSE None

_pick_pdf_link(urls) ==
    IF \E i \in 1..Len(urls) : contains(lower(urls[i]), ".pdf")
    THEN urls[CHOOSE i \in 1..Len(urls) :
                 /\ contains(lower(urls[i]), ".pdf")
                 /\ \A j \in 1..(i - 1) : ~contains(lower(urls[j]), ".pdf")]
    ELSE IF urls # <<>> THEN urls[1] ELSE None

(***************************************************************************)
(* Document retriever (lines 907-915).  A body is modelled by where its    *)
(* first signature-like bytes are: pad bytes that hold none, then sig      *)
(* ("" when the body has none at all), then the rest; readable and pages   *)
(* say what pypdf makes of it.                                             *)
(***************************************************************************)
HeadLen == 512

\* variant of SignatureInHead: no signature check
SignatureInHeadAlways(data) == TRUE

\* b"%pdf" in data[:512].lower()
SignatureInHead(data) ==
    /\ lower(data.sig) = "%pdf"
    /\ data.pad + Len(data.sig) <= HeadLen

\* variant of DownloadRequests: the GET is repeated once
DownloadRequestsRetry(url) == <<url, url>>

\* the requests _download_pdf_bytes issues: one GET, no retry (line 908)
DownloadRequests(url) == <<url>>

\* resp: what _http_get(url, timeout=18) did
_download_pdf_bytes(resp) ==
    IF resp.kind \in HttpErrors THEN Raised(resp.kind, resp.doc)
    ELSE IF ~SignatureInHead(resp.doc) THEN Raised("ValueError", resp.doc)
    ELSE Returned(resp.doc)

(***************************************************************************)
(* Text extractor (lines 918-932).  A page is [ok, lines]: ok is FALSE     *)
(* when extract_text raises on it; lines is the page's text, a sequence of *)
(* phrases.  The newline-joined text is the concatenation of the lines.    *)
(***************************************************************************)
max_pages == 25

Min(a, b) == IF a < b THEN a ELSE b

Max(a, b) == IF a > b THEN a ELSE b

RECURSIVE JoinPagesUntilFailure(_, _, _)
\* variant of JoinPages: a page that fails to decode ends the loop
JoinPagesUntilFailure(pages, i, n) ==
    IF i > n \/ ~pages[i].ok THEN <<>>
    ELSE pages[i].lines \o JoinPagesUntilFailure(pages, i + 1, n)

RECURSIVE JoinPages(_, _, _)
\* the loop of lines 925-932 from page i on
JoinPages(pages, i, n) ==
    IF i > n THEN <<>>
    ELSE LET t == IF pages[i].ok THEN pages[i].lines ELSE <<>>
         IN  t \o JoinPages(pages, i + 1, n)

\* PdfReader(...) raises on bytes it cannot parse
_pdf_to_text(pdf_bytes, cap) ==
    IF ~pdf_bytes.readable THEN Raised("PdfReadError", <<>>)
    ELSE Returned(JoinPages(pdf_bytes.pages, 1, Min(Len(pdf_bytes.pages), cap)))

(***************************************************************************)
(* Field extraction engine (lines 967-1058).  The text is a sequence of    *)
(* phrases [label, a, b, unit]: the words before a number, the number, the *)
(* second number of a range ("" when there is none) and the unit token     *)
(* after it, each as written in the document.  A pattern is the labels it  *)
(* accepts (lowercased, the search is IGNORECASE) and the alternatives of  *)
(* its unit group in the order the regular expression lists them, each a   *)
(* sequence of literals with \s* between them.                             *)
(***************************************************************************)
endswith(s, p) == Len(s) >= Len(p) /\ SubSeq(s, Len(s) - Len(p) + 1, Len(s)) = p

RECURSIVE SkipWs(_, _)
\* \s* from position i: the position after the whitespace
SkipWs(u, i) ==
    IF i <= Len(u) /\ SubSeq(u, i, i) \in Whitespace THEN SkipWs(u, i + 1) ELSE i

RECURSIVE MatchLits(_, _, _)
\* the literals lits matched at position i of u, \s* before each but the
\* one at i: the position after the match, 0 when there is none
MatchLits(u, i, lits) ==
    IF lits = <<>> THEN i
    ELSE LET lit == Head(lits)
         IN  IF i + Len(lit) - 1 <= Len(u) /\ SubSeq(u, i, i + Len(lit) - 1) = lit
             THEN IF Tail(lits) = <<>> THEN i + Len(lit)
                  ELSE MatchLits(u, SkipWs(u, i + Len(lit)), Tail(lits))
             ELSE 0

RECURSIVE CaptureUnit(_, _)
\* group(3): the text the first matching alternative consumes, None when no
\* alternative matches
CaptureUnit(alts, unit) ==
    IF alts = <<>> THEN None
    ELSE LET e == MatchLits(lower(unit), 1, Head(alts))
         IN  IF e > 0 THEN SubSeq(unit, 1, e - 1) ELSE CaptureUnit(Tail(alts), unit)

\* re.search(pat, ...) finds the pattern in this phrase
PatternMatches(pat, phrase) ==
    /\ phrase.a # ""
    /\ \E l \in pat.labels : endswith(lower(phrase.label), l)
    /\ pat.unit_optional \/ CaptureUnit(pat.units, phrase.unit) # None

\* variant of norm_dash: the hyphen is kept
norm_dash_hyphen(s) == replace(replace(s, " - ", "-"), " to ", "-")

\* norm_dash, lines 981-983
norm_dash(s) == replace(replace(replace(s, " - ", EnDash), "-", EnDash), " to ", EnDash)

RECURSIVE find_range_value(_, _)
\* lines 985-1009
find_range_value(patterns, text) ==
    IF patterns = <<>> THEN NA
    ELSE LET pat == Head(patterns)
         IN  IF \E i \in 1..Len(text) : PatternMatches(pat, text[i])
             THEN LET i == CHOOSE i \in 1..Len(text) :
                               /\ PatternMatches(pat, text[i])
                               /\ \A j \in 1..(i - 1) : ~PatternMatches(pat, text[j])
                      a == text[i].a
                      b == text[i].b
                      unit == strip(CaptureUnit(pat.units, text[i].unit))
                      raw == IF b # "" THEN strip(a \o "-" \o b \o " " \o unit)
                             ELSE strip(a \o " " \o unit)
                  IN  norm_dash(raw)
             ELSE find_range_value(Tail(patterns), text)

CelsiusUnits == << <<Degree, "c">>, <<"c">> >>

DurationUnits ==
    << <<"s">>, <<"sec">>, <<"secs">>, <<"seconds">>, <<"min">>, <<"mins">>,
       <<"minutes">> >>

RateUnits ==
    << <<Degree, "c", "/", "s">>, <<"c", "/", "s">>,
       <<Degree, "c", "/", "min">>, <<"c", "/", "min">> >>

tp_patterns ==
    << [labels |-> {"peak package body temperature", "peak temperature", "tp"},
        units |-> CelsiusUnits, unit_optional |-> FALSE],
       [labels |-> {"tp (" \o Degree \o "c)", "tp (c)"},
        units |-> CelsiusUnits, unit_optional |-> TRUE] >>

within5_patterns ==
    << [labels |-> {"time within 5 c of peak", "time within 5" \o Degree \o "c of tp",
                    "time within 5 c of tp"},
        units |-> DurationUnits, unit_optional |-> FALSE],
       [labels |-> {"tp", "tp(within 5 c)"},
        units |-> DurationUnits, unit_optional |-> FALSE] >>

tal_patterns ==
    << [labels |-> {"time above liquidus", "tal"},
        units |-> DurationUnits, unit_optional |-> FALSE],
       [labels |-> {"time above liquidus (tal)"},
        units |-> DurationUnits, unit_optional |-> FALSE] >>

ramp_up_patterns ==
    << [labels |-> {"ramp-up rate", "ramp up rate", "rampup rate", "heating rate",
                    "ramp rate"},
        units |-> RateUnits, unit_optional |-> FALSE],
       [labels |-> {"ramp-up", "ramp up", "rampup"},
        units |-> RateUnits, unit_optional |-> FALSE] >>

cool_down_patterns ==
    << [labels |-> {"ramp-down rate", "ramp down rate", "rampdown rate",
                    "cooling rate", "cool rate"},
        units |-> RateUnits, unit_optional |-> FALSE],
       [labels |-> {"ramp-down", "ramp down", "rampdown", "cooling", "cool"},
        units |-> RateUnits, unit_optional |-> FALSE] >>

\* lines 1042 and 1050
TidyRate(s) ==
    replace(replace(replace(s, Degree \o " C", Degree \o "C"), "C /", Degree \o "C/"),
            " / ", "/")

\* lines 1011-1058; the whitespace normalisation of lines 978-979 is the
\* tokenisation of the text into phrases
_extract_reflow_fields_from_text(text) ==
    LET tp0 == find_range_value(tp_patterns, text)
        tp == IF tp0 # NA /\ ~contains(lower(tp0), "c")
              THEN tp0 \o " " \o Degree \o "C" ELSE tp0
    IN  [tp_c |-> tp,
         time_within_5c_of_tp_s |-> find_range_value(within5_patterns, text),
         tal_s |-> find_range_value(tal_patterns, text),
         ramp_up_c_per_s |-> TidyRate(find_range_value(ramp_up_patterns, text)),
         cool_down_c_per_s |-> TidyRate(find_range_value(cool_down_patterns, text))]

\* variant of AllFieldsNA: any() in place of all()
AnyFieldIsNA(fields) == \E k \in DOMAIN fields : fields[k] = NA

\* all(fields[k] == NA for k in fields), line 1090
AllFieldsNA(fields) == \A k \in DOMAIN fields : fields[k] = NA

(***************************************************************************)
(* Evidence snippet (lines 1096-1102), over the text as a string.          *)
(***************************************************************************)
PhraseSource(p) ==
    p.label \o (IF p.a # "" THEN ": " \o p.a ELSE "")
            \o (IF p.b # "" THEN " to " \o p.b ELSE "")
            \o (IF p.unit # "" THEN " " \o p.unit ELSE "")

RECURSIVE TextSource(_)
TextSource(text) ==
    IF text = <<>> THEN ""
    ELSE IF Len(text) = 1 THEN PhraseSource(text[1])
    ELSE PhraseSource(text[1]) \o "\n" \o TextSource(Tail(text))

Keywords == {"reflow", "liquidus", "tal", "tp", "peak temperature", "ramp"}

RECURSIVE CollapseWs(_)
\* re.sub(r"\s+", " ", s)
CollapseWs(s) ==
    IF s = "" THEN ""
    ELSE IF Head(s) \in Whitespace
         THEN " " \o CollapseWs(SubSeq(s, SkipWs(s, 1), Len(s)))
         ELSE Head(s) \o CollapseWs(Tail(s))

SnippetBefore == 120

SnippetAfter == 220

Snippet(text) ==
    LET src == TextSource(text)
        low == lower(src)
        hits == {i \in 1..Len(src) :
                    \E k \in Keywords : /\ i + Len(k) - 1 <= Len(src)
                                        /\ SubSeq(low, i, i + Len(k) - 1) = k}
    IN  IF hits = {} THEN NA
        ELSE LET first == CHOOSE i \in hits : \A j \in hits : i <= j
                 start == Max(0, (first - 1) - SnippetBefore)
                 end == Min(Len(src), (first - 1) + SnippetAfter)
             IN  strip(CollapseWs(SubSeq(src, start + 1, end)))

(***************************************************************************)
(* What the environment can answer.                                        *)
(***************************************************************************)
\* the identifiers callers pass: placeholders in several spellings, and
\* usable part numbers, two of them equal up to surrounding whitespace and
\* two equal up to letter case
Idents ==
    {"", "  ", "NA", " n/a ", "Tbd", "unknown", "-", "ABC123", " ABC123\t",
     "abc123"}

Hrefs == {"https://a.example/ds.PDF", "http://b.example/product",
          "//duckduckgo.com/l/?uddg=c.example%2Fx.pdf"}

RECURSIVE SeqsUpTo(_, _)
\* the sequences over S of length at most n
SeqsUpTo(S, n) ==
    IF n = 0 THEN {<<>>}
    ELSE LET shorter == SeqsUpTo(S, n - 1)
         IN  shorter \cup {Append(q, x) : q \in shorter, x \in S}

NoDoc == [pad |-> 0, sig |-> "", readable |-> FALSE, pages |-> <<>>]

SearchResponses ==
    {[kind |-> e, links |-> <<>>] : e \in HttpErrors}
        \cup {[kind |-> "ok", links |-> l] : l \in SeqsUpTo(Hrefs, MaxLinks)}

PhTp == [label |-> "Tp", a |-> "260", b |-> "", unit |-> Degree \o "C"]

PhPeak == [label |-> "Peak temperature", a |-> "245", b |-> "260", unit |-> "C"]

PhTal == [label |-> "TAL", a |-> "1.5", b |-> "", unit |-> "min"]

PhCool == [label |-> "Cooling rate", a |-> "6", b |-> "", unit |-> Degree \o "C / s"]

PhStorage == [label |-> "Storage temperature", a |-> "40", b |-> "", unit |-> "C"]

PhReflow == [label |-> "Reflow soldering", a |-> "", b |-> "", unit |-> ""]

PageUndecodable == [ok |-> FALSE, lines |-> <<>>]

Pdf(pad, sig, pages) == [pad |-> pad, sig |-> sig, readable |-> TRUE, pages |-> pages]

Docs ==
    { \* an HTML page
      NoDoc,
      \* an HTML page that mentions %PDF near its start
      [pad |-> 100, sig |-> "%PDF", readable |-> FALSE, pages |-> <<>>],
      \* a PDF file pypdf cannot parse
      [pad |-> 0, sig |-> "%PDF", readable |-> FALSE, pages |-> <<>>],
      Pdf(0, "%PDF", << [ok |-> TRUE, lines |-> <<PhReflow, PhTp>>],
                        [ok |-> TRUE, lines |-> <<PhTal>>] >>),
      Pdf(0, "%PDF", << [ok |-> TRUE, lines |-> <<PhPeak, PhTp>>] >>),
      Pdf(0, "%PDF", << [ok |-> TRUE, lines |-> <<PhCool>>] >>),
      Pdf(0, "%PDF", << [ok |-> TRUE, lines |-> <<PhStorage>>] >>),
      Pdf(0, "%PDF", << PageUndecodable, [ok |-> TRUE, lines |-> <<>>] >>),
      \* junk before the header, which pypdf tolerates
      Pdf(16, "%pdf", << PageUndecodable, [ok |-> TRUE, lines |-> <<PhTal>>] >>),
      \* the signature ends at byte 512, and at byte 513
      Pdf(HeadLen - 4, "%PDF", <<>>),
      Pdf(HeadLen - 3, "%PDF", << [ok |-> TRUE, lines |-> <<PhTp>>] >>) }

DownloadResponses ==
    {[kind |-> e, doc |-> NoDoc] : e \in HttpErrors}
        \cup {[kind |-> "ok", doc |-> d] : d \in Docs}

(***************************************************************************)
(* The pipeline, _scour_datasheet_and_extract (lines 1061-1119), run by    *)
(* the handler threads of the server.  Each thread has the function's      *)
(* locals; the cache is the module global.                                 *)
(***************************************************************************)
Threads == {"t1", "t2"}

\* the cache keys the identifiers of the model normalise to, and the part
\* number of the example BOM (line 60)
Keys == {strip(m) : m \in Idents} \cup {"F3R76H90K"}

StageNames == {"search", "download", "extract", "parse"}

VARIABLES
    _SCRAPE_CACHE,  \* mpn_norm -> result record
    pc,             \* per thread: idle, search, download, extract, parse,
                    \*   done (returned res), raised (an exception left the call)
    mpn, mpn_norm, urls, pick, pdf_bytes, text, fields, res,  \* the locals
    data,           \* per thread: the local of _download_pdf_bytes, the body read
    trace,          \* per thread: the stages this invocation ran, each with
                    \*   how it ended ("returned" or the exception)
    gets,           \* per thread: the requests this invocation made through
                    \*   _http_get, each with its URL and how it ended
    runs,           \* per key and stage: how often the stage ran for the key
    first,          \* per key: the first result returned for it
    writes,         \* per key: how often the pipeline stored a result for it
    _STATE,         \* the module global of lines 46-66
    agent,          \* per thread: the locals of _run_component_agent_mpn_only
    post,           \* per thread: the request do_POST is serving, its locals
                    \*   and its reply
    arg, ret        \* a function applied on its own: its argument and result

vars == <<_SCRAPE_CACHE, pc, mpn, mpn_norm, urls, pick, pdf_bytes, text, fields,
          res, data, trace, gets, runs, first, writes, _STATE, agent,
          post, arg, ret>>

\* the state outside the pipeline
outer == <<_STATE, agent, post, arg, ret>>

\* a local that is not assigned yet
Unset == <<>>

\* the BOM the server starts with, lines 49-61
ExampleBom ==
    [columns |-> <<"Item", "Stock", "Description", "Qty", "Ref", "MPN">>,
     rows |-> <<[Item |-> "1", Stock |-> "Brynleigh0001",
                 Description |-> "(example)", Qty |-> "67",
                 Ref |-> "FK1, FK2..", MPN |-> "F3R76H90K"]>>]

\* the aggregation entry of a state whose aggregation has not run
NotRun == [status |-> "not_run", summary |-> ""]

\* _STATE as the module creates it, lines 46-66, holding the BOM bom
InitialState(bom) ==
    [boardWeight |-> 80, bomLabel |-> "No BOM loaded", bom |-> bom,
     components_ready |-> FALSE, board_ready |-> FALSE,
     component_reflow |-> <<>>, aggregation |-> NotRun]

\* a thread that is not in _run_component_agent_mpn_only
\* (calls: the identifiers the run has passed to the pipeline so far)
NoAgent ==
    [pc |-> "idle", cols |-> <<>>, rows |-> <<>>, unique |-> <<>>,
     results |-> <<>>, out |-> Unset, calls |-> <<>>]

\* a thread that is not in do_POST (req: what the request carries;
\* comps_ready, board_ready and summary: the locals of the aggregate request,
\* lines 809, 810 and 1238; out: the reply)
NoPost ==
    [pc |-> "idle", path |-> "", req |-> Unset, comps_ready |-> FALSE,
     board_ready |-> FALSE, summary |-> "", out |-> Unset]

\* no function has been applied
NoCall == [ok |-> FALSE]

\* no thread is in the pipeline and the cache is empty
NoPipeline ==
    /\ _SCRAPE_CACHE = <<>>
    /\ pc = [t \in Threads |-> "idle"]
    /\ mpn = [t \in Threads |-> ""]
    /\ mpn_norm = [t \in Threads |-> ""]
    /\ urls = [t \in Threads |-> <<>>]
    /\ pick = [t \in Threads |-> None]
    /\ pdf_bytes = [t \in Threads |-> NoDoc]
    /\ text = [t \in Threads |-> <<>>]
    /\ fields = [t \in Threads |-> Unset]
    /\ res = [t \in Threads |-> Unset]
    /\ data = [t \in Threads |-> NoDoc]
    /\ trace = [t \in Threads |-> <<>>]
    /\ gets = [t \in Threads |-> <<>>]
    /\ runs = [k \in Keys |-> [g \in StageNames |-> 0]]
    /\ first = <<>>
    /\ writes = [k \in Keys |-> 0]

Init ==
    /\ NoPipeline
    /\ _STATE = InitialState(ExampleBom)
    /\ agent = [t \in Threads |-> NoAgent]
    /\ post = [t \in Threads |-> NoPost]
    /\ arg = Unset
    /\ ret = NoCall

\* d[key] = value on a dict
Put(d, key, value) ==
    [k \in DOMAIN d \cup {key} |-> IF k = key THEN value ELSE d[k]]

\* variant of CacheHit: the cache is never consulted
CacheHitNever(cache, key) == FALSE

\* mpn_norm in _SCRAPE_CACHE, line 1073
CacheHit(cache, key) == key \in DOMAIN cache

\* variant of InTry: the try block opens after the search
InTryAfterSearch(stage) == stage \in StageNames \ {"search"}

\* the stages inside the try block of lines 1076-1116
InTry(stage) == stage \in StageNames

\* variant of ExceptResult: the except clause reports not_found
ExceptResultNotFound(key) == _na_reflow_result(key, "not_found")

\* the except clause, lines 1116-1119
ExceptResult(key) == _na_reflow_result(key, "error_or_blocked")

\* variant of NoPick: the empty pick is not tested
NoPickNever(p) == FALSE

\* not pick, line 1079
NoPick(p) == p = None

\* lines 1091-1092
NoInfoResult(key, url) ==
    [_na_reflow_result(key, "no_reflow_info") EXCEPT !.evidence.source_url = url]

\* lines 1104-1112
OkResult(key, flds, url, snippet) ==
    [mpn |-> key, status |-> "ok", reflow |-> flds,
     evidence |-> [source_url |-> url, snippet |-> snippet]]

Ran(t, stage, outcome) ==
    /\ trace' = [trace EXCEPT ![t] = Append(@, [stage |-> stage, outcome |-> outcome])]
    /\ runs' = [runs EXCEPT ![mpn_norm[t]][stage] = @ + 1]

\* variant of Return: only an ok result is written to the cache
ReturnCachingOk(t, key, r, store) ==
    /\ res' = [res EXCEPT ![t] = r]
    /\ pc' = [pc EXCEPT ![t] = "done"]
    /\ _SCRAPE_CACHE' = IF store /\ r.status = "ok" THEN Put(_SCRAPE_CACHE, key, r)
                        ELSE _SCRAPE_CACHE
    /\ first' = IF key \in DOMAIN first \/ _is_na_mpn(key) THEN first
                ELSE Put(first, key, r)
    /\ writes' = IF store /\ r.status = "ok" THEN [writes EXCEPT ![key] = @ + 1]
                 ELSE writes

\* return r, without or with _SCRAPE_CACHE[mpn_norm] = r before it
Return(t, key, r, store) ==
    /\ res' = [res EXCEPT ![t] = r]
    /\ pc' = [pc EXCEPT ![t] = "done"]
    /\ _SCRAPE_CACHE' = IF store THEN Put(_SCRAPE_CACHE, key, r) ELSE _SCRAPE_CACHE
    /\ first' = IF key \in DOMAIN first \/ _is_na_mpn(key) THEN first
                ELSE Put(first, key, r)
    /\ writes' = IF store THEN [writes EXCEPT ![key] = @ + 1] ELSE writes

\* an exception raised in a stage: caught by the except clause when the
\* stage is in the try block, and otherwise it leaves the function
Throw(t, stage) ==
    IF InTry(stage)
    THEN Return(t, mpn_norm[t], ExceptResult(mpn_norm[t]), TRUE)
    ELSE /\ pc' = [pc EXCEPT ![t] = "raised"]
         /\ UNCHANGED <<res, _SCRAPE_CACHE, first, writes>>

\* variant of CallNA: the placeholder result is written to the cache
CallNAStores(t, m) ==
    /\ pc[t] = "idle"
    /\ _is_na_mpn(strip(m))
    /\ mpn' = [mpn EXCEPT ![t] = m]
    /\ mpn_norm' = [mpn_norm EXCEPT ![t] = strip(m)]
    /\ Return(t, strip(m), _na_reflow_result(strip(m), "mpn_na"), TRUE)
    /\ UNCHANGED <<urls, pick, pdf_bytes, text, fields, data, trace, gets, runs>>

\* the call, lines 1067-1070: a not-applicable identifier
CallNA(t, m) ==
    /\ pc[t] = "idle"
    /\ _is_na_mpn(strip(m))
    /\ mpn' = [mpn EXCEPT ![t] = m]
    /\ mpn_norm' = [mpn_norm EXCEPT ![t] = strip(m)]
    /\ Return(t, strip(m), _na_reflow_result(strip(m), "mpn_na"), FALSE)
    /\ UNCHANGED <<urls, pick, pdf_bytes, text, fields, data, trace, gets, runs>>

\* the call, lines 1067-1074: the identifier is in the cache
CallCached(t, m) ==
    /\ pc[t] = "idle"
    /\ ~_is_na_mpn(strip(m))
    /\ CacheHit(_SCRAPE_CACHE, strip(m))
    /\ mpn' = [mpn EXCEPT ![t] = m]
    /\ mpn_norm' = [mpn_norm EXCEPT ![t] = strip(m)]
    /\ Return(t, strip(m), _SCRAPE_CACHE[strip(m)], FALSE)
    /\ UNCHANGED <<urls, pick, pdf_bytes, text, fields, data, trace, gets, runs>>

\* the call, lines 1067-1076: the identifier has to be resolved
CallMiss(t, m) ==
    /\ pc[t] = "idle"
    /\ ~_is_na_mpn(strip(m))
    /\ ~CacheHit(_SCRAPE_CACHE, strip(m))
    /\ runs[strip(m)]["search"] < MaxRuns
    /\ mpn' = [mpn EXCEPT ![t] = m]
    /\ mpn_norm' = [mpn_norm EXCEPT ![t] = strip(m)]
    /\ pc' = [pc EXCEPT ![t] = "search"]
    /\ UNCHANGED <<_SCRAPE_CACHE, urls, pick, pdf_bytes, text, fields, res, data,
                   trace, gets, runs, first, writes>>

\* lines 1077-1082: the search request is answered with resp
Search(t, resp) ==
    /\ pc[t] = "search"
    /\ gets' = [gets EXCEPT ![t] = Append(@, [url |-> SearchUrl(mpn_norm[t]),
                                               result |-> resp.kind])]
    /\ LET r == _search_candidate_urls(resp)
           p == _pick_pdf_link(r.value)
       IN  IF r.raised
           THEN /\ Ran(t, "search", r.exc)
                /\ Throw(t, "search")
                /\ UNCHANGED <<urls, pick>>
           ELSE /\ Ran(t, "search", "returned")
                /\ urls' = [urls EXCEPT ![t] = r.value]
                /\ pick' = [pick EXCEPT ![t] = p]
                /\ IF NoPick(p)
                   THEN Return(t, mpn_norm[t],
                               _na_reflow_result(mpn_norm[t], "not_found"), TRUE)
                   ELSE /\ pc' = [pc EXCEPT ![t] = "download"]
                        /\ UNCHANGED <<res, _SCRAPE_CACHE, first, writes>>
    /\ UNCHANGED <<mpn, mpn_norm, pdf_bytes, text, fields, data>>

\* line 1084: the download request is answered with resp
Download(t, resp) ==
    /\ pc[t] = "download"
    /\ gets' = [gets EXCEPT ![t] =
                    @ \o [i \in 1..Len(DownloadRequests(pick[t])) |->
                            [url |-> DownloadRequests(pick[t])[i],
                             result |-> resp.kind]]]
    /\ data' = IF resp.kind = "ok" THEN [data EXCEPT ![t] = resp.doc] ELSE data
    /\ LET r == _download_pdf_bytes(resp)
       IN  IF r.raised
           THEN /\ Ran(t, "download", r.exc)
                /\ Throw(t, "download")
                /\ UNCHANGED pdf_bytes
           ELSE /\ Ran(t, "download", "returned")
                /\ pdf_bytes' = [pdf_bytes EXCEPT ![t] = r.value]
                /\ pc' = [pc EXCEPT ![t] = "extract"]
                /\ UNCHANGED <<res, _SCRAPE_CACHE, first, writes>>
    /\ UNCHANGED <<mpn, mpn_norm, urls, pick, text, fields>>

\* line 1085
Extract(t) ==
    /\ pc[t] = "extract"
    /\ LET r == _pdf_to_text(pdf_bytes[t], max_pages)
       IN  IF r.raised
           THEN /\ Ran(t, "extract", r.exc)
                /\ Throw(t, "extract")
                /\ UNCHANGED text
           ELSE /\ Ran(t, "extract", "returned")
                /\ text' = [text EXCEPT ![t] = r.value]
                /\ pc' = [pc EXCEPT ![t] = "parse"]
                /\ UNCHANGED <<res, _SCRAPE_CACHE, first, writes>>
    /\ UNCHANGED <<mpn, mpn_norm, urls, pick, pdf_bytes, fields, data, gets>>

\* variant of Parse: a text without reflow fields sends the invocation back
\* to the search
ParseOrSearchAgain(t) ==
    /\ pc[t] = "parse"
    /\ Ran(t, "parse", "returned")
    /\ LET f == _extract_reflow_fields_from_text(text[t])
       IN  /\ fields' = [fields EXCEPT ![t] = f]
           /\ IF AllFieldsNA(f)
              THEN /\ pc' = [pc EXCEPT ![t] = "search"]
                   /\ UNCHANGED <<res, _SCRAPE_CACHE, first, writes>>
              ELSE Return(t, mpn_norm[t],
                          OkResult(mpn_norm[t], f, pick[t], Snippet(text[t])), TRUE)
    /\ UNCHANGED <<mpn, mpn_norm, urls, pick, pdf_bytes, text, data, gets>>

\* lines 1087-1114
Parse(t) ==
    /\ pc[t] = "parse"
    /\ Ran(t, "parse", "returned")
    /\ LET f == _extract_reflow_fields_from_text(text[t])
       IN  /\ fields' = [fields EXCEPT ![t] = f]
           /\ IF AllFieldsNA(f)
              THEN Return(t, mpn_norm[t], NoInfoResult(mpn_norm[t], pick[t]), TRUE)
              ELSE Return(t, mpn_norm[t],
                          OkResult(mpn_norm[t], f, pick[t], Snippet(text[t])), TRUE)
    /\ UNCHANGED <<mpn, mpn_norm, urls, pick, pdf_bytes, text, data, gets>>

\* the caller takes the result (or the exception); the frame is gone
Leave(t) ==
    /\ pc[t] \in {"done", "raised"}
    /\ pc' = [pc EXCEPT ![t] = "idle"]
    /\ mpn' = [mpn EXCEPT ![t] = ""]
    /\ mpn_norm' = [mpn_norm EXCEPT ![t] = ""]
    /\ urls' = [urls EXCEPT ![t] = <<>>]
    /\ pick' = [pick EXCEPT ![t] = None]
    /\ pdf_bytes' = [pdf_bytes EXCEPT ![t] = NoDoc]
    /\ text' = [text EXCEPT ![t] = <<>>]
    /\ fields' = [fields EXCEPT ![t] = Unset]
    /\ res' = [res EXCEPT ![t] = Unset]
    /\ data' = [data EXCEPT ![t] = NoDoc]
    /\ trace' = [trace EXCEPT ![t] = <<>>]
    /\ gets' = [gets EXCEPT ![t] = <<>>]
    /\ UNCHANGED <<_SCRAPE_CACHE, runs, first, writes>>

\* sequential invocations: a call starts only when no other is in flight
NoneInFlight == \A t \in Threads : pc[t] = "idle"

Next ==
    \/ \E t \in Threads, m \in Idents :
            NoneInFlight /\ CallNA(t, m) /\ UNCHANGED outer
    \/ \E t \in Threads, m \in Idents :
            NoneInFlight /\ CallCached(t, m) /\ UNCHANGED outer
    \/ \E t \in Threads, m \in Idents :
            NoneInFlight /\ CallMiss(t, m) /\ UNCHANGED outer
    \/ \E t \in Threads, resp \in SearchResponses :
            Search(t, resp) /\ UNCHANGED outer
    \/ \E t \in Threads, resp \in DownloadResponses :
            Download(t, resp) /\ UNCHANGED outer
    \/ \E t \in Threads : Extract(t) /\ UNCHANGED outer
    \/ \E t \in Threads : Parse(t) /\ UNCHANGED outer
    \/ \E t \in Threads : Leave(t) /\ UNCHANGED outer

Spec == Init /\ [][Next]_vars

(***************************************************************************)
(* The server is a ThreadingHTTPServer (line 1262): every request runs on  *)
(* a thread of its own, and neither the handler (lines 1221-1227) nor the  *)
(* pipeline takes a lock around _SCRAPE_CACHE.  Invocations of the         *)
(* pipeline by concurrent component-agent runs interleave at every         *)
(* statement that reads or writes the cache.                               *)
(***************************************************************************)
\* the identifiers of the concurrent runs: one part number in two
\* spellings, and a placeholder
ConcurrentIdents == {"ABC123", " ABC123\t", "NA"}

ConcurrentSearchResponses ==
    {[kind |-> "urlerror", links |-> <<>>],
     [kind |-> "ok", links |-> <<>>],
     [kind |-> "ok", links |-> <<"https://a.example/ds.PDF">>]}

ConcurrentDownloadResponses ==
    {[kind |-> "timeout", doc |-> NoDoc],
     [kind |-> "ok", doc |-> NoDoc],
     [kind |-> "ok",
      doc |-> Pdf(0, "%PDF", << [ok |-> TRUE, lines |-> <<PhPeak, PhTp>>] >>)],
     [kind |-> "ok",
      doc |-> Pdf(0, "%PDF", << [ok |-> TRUE, lines |-> <<PhStorage>>] >>)]}

NextConcurrent ==
    \/ \E t \in Threads, m \in ConcurrentIdents :
            CallNA(t, m) /\ UNCHANGED outer
    \/ \E t \in Threads, m \in ConcurrentIdents :
            CallCached(t, m) /\ UNCHANGED outer
    \/ \E t \in Threads, m \in ConcurrentIdents :
            CallMiss(t, m) /\ UNCHANGED outer
    \/ \E t \in Threads, resp \in ConcurrentSearchResponses :
            Search(t, resp) /\ UNCHANGED outer
    \/ \E t \in Threads, resp \in ConcurrentDownloadResponses :
            Download(t, resp) /\ UNCHANGED outer
    \/ \E t \in Threads : Extract(t) /\ UNCHANGED outer
    \/ \E t \in Threads : Parse(t) /\ UNCHANGED outer
    \/ \E t \in Threads : Leave(t) /\ UNCHANGED outer

SpecConcurrent == Init /\ [][NextConcurrent]_vars

\* weak fairness of Parse(t), with ENABLED written out: Parse(t) has the one
\* guard pc[t] = "parse" and is the only step that takes pc[t] from parse to
\* done
ParseFairness(t) ==
    <>[](pc[t] = "parse") => []<><<pc[t] = "parse" /\ pc'[t] = "done">>_vars

\* every external call returns or times out (_http_get passes a timeout to
\* urlopen, line 868), and a thread that can take its next step takes it
Fairness ==
    \A t \in Threads :
        /\ WF_vars(\E resp \in ConcurrentSearchResponses :
                        Search(t, resp) /\ UNCHANGED outer)
        /\ WF_vars(\E resp \in ConcurrentDownloadResponses :
                        Download(t, resp) /\ UNCHANGED outer)
        /\ WF_vars(Extract(t) /\ UNCHANGED outer)
        /\ ParseFairness(t)

SpecFair == SpecConcurrent /\ Fairness

(***************************************************************************)
(* Component agent, _run_component_agent_mpn_only (lines 755-802), run by  *)
(* the handler of POST /api/run_component_agent (lines 1221-1227).         *)
(***************************************************************************)
\* the characters of the model's identifiers in code point order
CodePoints == "\t\n -/0123456789" \o Uppers \o Lowers

\* ord(c)
Ord(c) == CHOOSE i \in 1..Len(CodePoints) : SubSeq(CodePoints, i, i) = c

RECURSIVE StrLess(_, _)
\* s < t on str
StrLess(s, t) ==
    IF t = "" THEN FALSE
    ELSE IF s = "" THEN TRUE
    ELSE IF Head(s) = Head(t) THEN StrLess(Tail(s), Tail(t))
    ELSE Ord(Head(s)) < Ord(Head(t))

\* variant of SortKey: the strings themselves
SortKeyExact(s) == s

\* key=lambda s: s.lower(), line 789
SortKey(s) == lower(s)

\* sorted(S, key=...) for a set S of str, line 789: the sort is stable and a
\* set iterates in hash order, which differs from process to process, so
\* strings with equal keys may come out in either order
Sorted(S) ==
    {u \in [1..Cardinality(S) -> S] :
        \A i, j \in 1..Cardinality(S) :
            i < j => u[i] # u[j] /\ ~StrLess(SortKey(u[j]), SortKey(u[i]))}

\* r.get(c) or ""
Get(r, c) == IF c \in DOMAIN r THEN r[c] ELSE ""

\* lines 774-778: the first column whose trimmed, lowercased name is mpn
MpnCol(cols) ==
    IF \E i \in 1..Len(cols) : lower(strip(cols[i])) = "mpn"
    THEN cols[CHOOSE i \in 1..Len(cols) :
                 /\ lower(strip(cols[i])) = "mpn"
                 /\ \A j \in 1..(i - 1) : lower(strip(cols[j])) # "mpn"]
    ELSE None

\* variant of Mpns: an empty cell stays empty
MpnsVerbatim(rows, mpn_col) ==
    [i \in 1..Len(rows) |-> strip(Get(rows[i], mpn_col))]

\* lines 782-787
Mpns(rows, mpn_col) ==
    [i \in 1..Len(rows) |->
        LET v == strip(Get(rows[i], mpn_col)) IN IF v = "" THEN NA ELSE v]

\* set(mpns)
SetOf(q) == {q[i] : i \in 1..Len(q)}

\* the variables of the pipeline
pipeline == <<_SCRAPE_CACHE, pc, mpn, mpn_norm, urls, pick, pdf_bytes, text,
              fields, res, data, trace, gets, runs, first, writes>>

\* lines 763-766
AgentRead(t) ==
    /\ agent[t].pc = "idle"
    /\ pc[t] = "idle"
    /\ agent' = [agent EXCEPT ![t] = [@ EXCEPT !.pc = "read",
                                               !.cols = _STATE.bom.columns,
                                               !.rows = _STATE.bom.rows]]
    /\ UNCHANGED <<pipeline, _STATE, post, arg, ret>>

\* lines 768-772
AgentEmpty(t) ==
    /\ agent[t].pc = "read"
    /\ agent[t].rows = <<>>
    /\ _STATE' = [_STATE EXCEPT !.components_ready = TRUE,
                                !.component_reflow = <<>>]
    /\ agent' = [agent EXCEPT ![t] =
                    [@ EXCEPT !.pc = "done",
                              !.out = [unique_mpn_count |-> 0,
                                       message |-> "No BOM rows loaded."]]]
    /\ UNCHANGED <<pipeline, post, arg, ret>>

\* lines 774-780
AgentNoColumn(t) ==
    /\ agent[t].pc = "read"
    /\ agent[t].rows # <<>>
    /\ MpnCol(agent[t].cols) = None
    /\ agent' = [agent EXCEPT ![t] =
                    [@ EXCEPT !.pc = "raised",
                              !.out = "BOM does not contain an 'MPN' column."]]
    /\ UNCHANGED <<pipeline, _STATE, post, arg, ret>>

\* lines 774-791
AgentUnique(t) ==
    /\ agent[t].pc = "read"
    /\ agent[t].rows # <<>>
    /\ MpnCol(agent[t].cols) # None
    /\ \E u \in Sorted(SetOf(Mpns(agent[t].rows, MpnCol(agent[t].cols)))) :
           agent' = [agent EXCEPT ![t] = [@ EXCEPT !.pc = "loop", !.unique = u,
                                                   !.results = <<>>]]
    /\ UNCHANGED <<pipeline, _STATE, post, arg, ret>>

\* line 792: the loop has an identifier left to pass to the pipeline
AgentNext(t) ==
    /\ agent[t].pc = "loop"
    /\ Len(agent[t].results) < Len(agent[t].unique)

\* for mpn in unique, the value of mpn
AgentMpn(t) == agent[t].unique[Len(agent[t].results) + 1]

\* line 795, and the pipeline's frame is gone
AgentAppend(t) ==
    /\ agent[t].pc = "loop"
    /\ pc[t] = "done"
    /\ agent' = [agent EXCEPT ![t].results = Append(@, res[t])]
    /\ Leave(t)
    /\ UNCHANGED <<_STATE, post, arg, ret>>

\* lines 797-802
AgentStore(t) ==
    /\ agent[t].pc = "loop"
    /\ pc[t] = "idle"
    /\ Len(agent[t].results) = Len(agent[t].unique)
    /\ _STATE' = [_STATE EXCEPT !.components_ready = TRUE,
                                !.component_reflow = agent[t].results,
                                !.aggregation = NotRun]
    /\ agent' = [agent EXCEPT ![t] =
                    [@ EXCEPT !.pc = "done",
                              !.out = [unique_mpn_count |-> Len(agent[t].unique),
                                       message |-> "Component agent complete."]]]
    /\ UNCHANGED <<pipeline, post, arg, ret>>

\* lines 1224 and 1226: the handler sends the reply and the request is over
AgentReply(t) ==
    /\ agent[t].pc \in {"done", "raised"}
    /\ agent' = [agent EXCEPT ![t] = NoAgent]
    /\ UNCHANGED <<pipeline, _STATE, post, arg, ret>>

\* line 794: the agent passes mpn to the pipeline
AgentCalls(t) ==
    /\ agent' = [agent EXCEPT ![t].calls = Append(@, AgentMpn(t))]
    /\ UNCHANGED <<_STATE, post, arg, ret>>

\* variant of Uploaded: the label and the BOM are replaced and nothing else
UploadedKeepingResults(state, label, bom) ==
    [state EXCEPT !.bomLabel = label, !.bom = bom]

\* lines 1210-1216: the state after an upload that parsed to label and bom
Uploaded(state, label, bom) ==
    [state EXCEPT !.bomLabel = label, !.bom = bom, !.components_ready = FALSE,
                  !.component_reflow = <<>>, !.aggregation = NotRun]

\* most rows of an uploaded BOM
MaxRows == 3

\* the MPN cells of the uploaded sheets: a part number in two letter
\* cases, an empty cell and a placeholder
Cells == {"ABC123", "abc123", "", "NA "}

\* a sheet with an MPN column holding cells, as _parse_excel_preview
\* returns it (line 748: every row is a dict over the columns)
BomOf(cells) ==
    [columns |-> <<"Item", "Mpn">>,
     rows |-> [i \in 1..Len(cells) |-> [Item |-> "1", Mpn |-> cells[i]]]]

\* a sheet without an MPN column
BomWithoutMpn ==
    [columns |-> <<"Item", "Part">>,
     rows |-> <<[Item |-> "1", Part |-> "ABC123"]>>]

\* a sheet without an MPN column that holds its header row alone: lines
\* 732-749 find no row after the header
HeaderOnlyBomWithoutMpn == [columns |-> <<"Item", "Part">>, rows |-> <<>>]

Boms ==
    {BomOf(c) : c \in SeqsUpTo(Cells, MaxRows)}
        \cup {BomWithoutMpn, HeaderOnlyBomWithoutMpn}

AgentSearchResponses ==
    {[kind |-> "urlerror", links |-> <<>>],
     [kind |-> "ok", links |-> <<"https://a.example/ds.PDF">>]}

AgentDownloadResponses ==
    {[kind |-> "ok",
      doc |-> Pdf(0, "%PDF", << [ok |-> TRUE, lines |-> <<PhPeak, PhTp>>] >>)]}

\* a BOM has been uploaded to the fresh server
InitAgent ==
    /\ NoPipeline
    /\ \E bom \in Boms :
           _STATE = Uploaded(InitialState(ExampleBom), "Loaded: bom.xlsx", bom)
    /\ agent = [t \in Threads |-> NoAgent]
    /\ post = [t \in Threads |-> NoPost]
    /\ arg = Unset
    /\ ret = NoCall

\* sequential runs: a run starts only when no other is in progress
NoneRunning == \A t \in Threads : agent[t].pc = "idle"

NextAgent ==
    \/ \E t \in Threads : NoneRunning /\ AgentRead(t)
    \/ \E t \in Threads : AgentEmpty(t)
    \/ \E t \in Threads : AgentNoColumn(t)
    \/ \E t \in Threads : AgentUnique(t)
    \/ \E t \in Threads : AgentNext(t) /\ CallNA(t, AgentMpn(t)) /\ AgentCalls(t)
    \/ \E t \in Threads :
            AgentNext(t) /\ CallCached(t, AgentMpn(t)) /\ AgentCalls(t)
    \/ \E t \in Threads : AgentNext(t) /\ CallMiss(t, AgentMpn(t)) /\ AgentCalls(t)
    \/ \E t \in Threads, resp \in AgentSearchResponses :
            Search(t, resp) /\ UNCHANGED outer
    \/ \E t \in Threads, resp \in AgentDownloadResponses :
            Download(t, resp) /\ UNCHANGED outer
    \/ \E t \in Threads : Extract(t) /\ UNCHANGED outer
    \/ \E t \in Threads : Parse(t) /\ UNCHANGED outer
    \/ \E t \in Threads : AgentAppend(t)
    \/ \E t \in Threads : AgentStore(t)
    \/ \E t \in Threads : AgentReply(t)

SpecAgent == InitAgent /\ [][NextAgent]_vars

\* the sheet of the end-to-end scenario: a part number twice, an empty
\* cell and a placeholder
ScenarioCells == <<"ABC123", "ABC123", "", "TBD">>

InitScenario ==
    /\ NoPipeline
    /\ _STATE = Uploaded(InitialState(ExampleBom), "Loaded: bom.xlsx",
                         BomOf(ScenarioCells))
    /\ agent = [t \in Threads |-> NoAgent]
    /\ post = [t \in Threads |-> NoPost]
    /\ arg = Unset
    /\ ret = NoCall

NextScenario ==
    \/ \E t \in Threads : NoneRunning /\ AgentRead(t)
    \/ \E t \in Threads : AgentUnique(t)
    \/ \E t \in Threads : AgentNext(t) /\ CallNA(t, AgentMpn(t)) /\ AgentCalls(t)
    \/ \E t \in Threads :
            AgentNext(t) /\ CallCached(t, AgentMpn(t)) /\ AgentCalls(t)
    \/ \E t \in Threads : AgentNext(t) /\ CallMiss(t, AgentMpn(t)) /\ AgentCalls(t)
    \/ \E t \in Threads, resp \in SearchResponses :
            Search(t, resp) /\ UNCHANGED outer
    \/ \E t \in Threads, resp \in DownloadResponses :
            Download(t, resp) /\ UNCHANGED outer
    \/ \E t \in Threads : Extract(t) /\ UNCHANGED outer
    \/ \E t \in Threads : Parse(t) /\ UNCHANGED outer
    \/ \E t \in Threads : AgentAppend(t)
    \/ \E t \in Threads : AgentStore(t)
    \/ \E t \in Threads : AgentReply(t)

SpecScenario == InitScenario /\ [][NextScenario]_vars

(***************************************************************************)
(* BOM ingestion, _parse_excel_preview (lines 697-752).  A worksheet is    *)
(* the sequence of its rows, a row the sequence of its cells, and a cell   *)
(* the text str() gives for it; an empty cell (None) is the empty text,    *)
(* which lines 713, 714, 744 and 748 treat alike.                          *)
(***************************************************************************)
\* cell is None or str(cell).strip() == "", lines 713 and 744
Blank(cell) == strip(cell) = ""

\* any(cell is not None and str(cell).strip() != "" for cell in row)
AnyFilled(row) == \E i \in 1..Len(row) : ~Blank(row[i])

\* lines 712-716: the index of the first row with a filled cell, 0 for none
HeaderRowIdx(sheet) ==
    IF \E i \in 1..Len(sheet) : AnyFilled(sheet[i])
    THEN CHOOSE i \in 1..Len(sheet) :
            AnyFilled(sheet[i]) /\ \A j \in 1..(i - 1) : ~AnyFilled(sheet[j])
    ELSE 0

RECURSIVE PopBlank(_)
\* lines 721-722
PopBlank(header) ==
    IF header # <<>> /\ header[Len(header)] = ""
    THEN PopBlank(SubSeq(header, 1, Len(header) - 1))
    ELSE header

RECURSIVE Columns(_, _, _)
\* lines 724-730
Columns(header, seen, columns) ==
    IF header = <<>> THEN columns
    ELSE LET col == Head(header)
             name == IF col # "" THEN col ELSE "Column"
             count == IF name \in DOMAIN seen THEN seen[name] ELSE 0
         IN  Columns(Tail(header), Put(seen, name, count + 1),
                     Append(columns,
                            IF count = 0 THEN name
                            ELSE name \o "_" \o ToString(count + 1)))

\* lines 738-742: the row padded with empty cells or cut to n cells
Fit(row, n) == [i \in 1..n |-> IF i <= Len(row) THEN row[i] ELSE ""]

\* line 748: dict(zip(columns, values)); of two columns of one name the
\* later one's cell stays
RowDict(columns, values) ==
    [c \in {columns[i] : i \in 1..Len(columns)} |->
        values[CHOOSE i \in 1..Len(columns) :
                  /\ columns[i] = c
                  /\ \A j \in (i + 1)..Len(columns) : columns[j] # c]]

RECURSIVE Rows(_, _, _, _)
\* lines 732-749, over the rows after the header row
Rows(sheet, columns, rows, max_rows) ==
    IF sheet = <<>> \/ Len(rows) >= max_rows THEN rows
    ELSE LET values == Fit(Head(sheet), Len(columns))
         IN  Rows(Tail(sheet), columns,
                  IF AnyFilled(values)
                  THEN Append(rows, RowDict(columns, values))
                  ELSE rows,
                  max_rows)

\* line 751
Label(filename, max_row, cols) ==
    "Loaded: " \o filename \o " (" \o ToString(max_row) \o " rows, "
        \o ToString(cols) \o " cols)"

\* _parse_excel_preview(file_bytes, filename, max_rows); file_bytes is a
\* workbook load_workbook opens, with its first worksheet, or one it rejects
_parse_excel_preview(file_bytes, filename, max_rows) ==
    IF ~(endswith(lower(filename), ".xlsx") \/ endswith(lower(filename), ".xlsm"))
    THEN Raised("Only .xlsx and .xlsm are supported at the moment.", Unset)
    ELSE IF ~file_bytes.readable
    THEN Raised("File is not a zip file", Unset)
    ELSE IF HeaderRowIdx(file_bytes.sheet) = 0
    THEN Raised("The BOM sheet appears to be empty.", Unset)
    ELSE LET sheet == file_bytes.sheet
             i == HeaderRowIdx(sheet)
             header == PopBlank([k \in 1..Len(sheet[i]) |-> strip(sheet[i][k])])
             columns == Columns(header, <<>>, <<>>)
             rows == Rows(SubSeq(sheet, i + 1, Len(sheet)), columns, <<>>,
                          max_rows)
         IN  Returned([label |-> Label(filename, Len(sheet), Len(columns)),
                       columns |-> columns, rows |-> rows])

(***************************************************************************)
(* The handlers of do_POST (lines 1166-1246).  Each request runs on a      *)
(* thread of its own; post[t] is the request thread t is serving.  A       *)
(* handler that touches _STATE inside one `with _STATE_LOCK` block is one  *)
(* step; POST /api/aggregate reads _STATE in one block (lines 806-811) and *)
(* writes it in another (lines 1239-1240), so it is two steps.             *)
(***************************************************************************)
\* _send_json(obj, status)
Reply(status, error, body) ==
    [status |-> status, ok |-> status = 200, error |-> error, body |-> body]

\* thread t has sent the reply out to the request req on path
Replied(t, path, req, out) ==
    post' = [post EXCEPT ![t] = [NoPost EXCEPT !.pc = "replied", !.path = path,
                                               !.req = req, !.out = out]]

\* thread t is free to take a request
Free(t) == post[t].pc = "idle" /\ agent[t].pc = "idle" /\ pc[t] = "idle"

\* the decimal digits
Digits == "0123456789"

\* the value of the digit c
DigitVal(c) == (CHOOSE i \in 1..Len(Digits) : SubSeq(Digits, i, i) = c) - 1

\* c is a decimal digit
IsDigit(c) == \E i \in 1..Len(Digits) : SubSeq(Digits, i, i) = c

RECURSIVE ParseDigits(_, _)
\* the number the digits of s spell after the number n
ParseDigits(s, n) ==
    IF s = "" THEN n ELSE ParseDigits(Tail(s), 10 * n + DigitVal(Head(s)))

\* int(s) on a str: surrounding whitespace, an optional sign, digits
IntOfStr(s) ==
    LET body == strip(s)
        signed == body # "" /\ Head(body) \in {"+", "-"}
        digits == IF signed THEN Tail(body) ELSE body
    IN  IF digits # "" /\ \A i \in 1..Len(digits) : IsDigit(SubSeq(digits, i, i))
        THEN Returned(IF signed /\ Head(body) = "-"
                      THEN 0 - ParseDigits(digits, 0)
                      ELSE ParseDigits(digits, 0))
        ELSE Raised("ValueError", 0)

\* int(v) on a value JSON decodes to: an int, a float num/den (truncated
\* towards zero), a bool, a str, or null
IntOf(v) ==
    CASE v.type = "int" -> Returned(v.num)
      [] v.type = "float" ->
            Returned(IF v.num < 0 THEN 0 - ((0 - v.num) \div v.den)
                     ELSE v.num \div v.den)
      [] v.type = "bool" -> Returned(IF v.num # 0 THEN 1 ELSE 0)
      [] v.type = "str" -> IntOfStr(v.str)
      [] OTHER -> Raised("TypeError", 0)

\* variant of Clamp: the value as it came
ClampNone(bw) == bw

\* max(0, min(100, bw)), line 1173
Clamp(bw) == Max(0, Min(100, bw))

\* lines 1169-1175: _STATE after the patch
Patched(state, patch) ==
    IF "boardWeight" \in DOMAIN patch /\ ~IntOf(patch.boardWeight).raised
    THEN [state EXCEPT !.boardWeight = Clamp(IntOf(patch.boardWeight).value)]
    ELSE state

\* POST /api/state, lines 1167-1177
SetState(t, patch) ==
    /\ Free(t)
    /\ _STATE' = Patched(_STATE, patch)
    /\ Replied(t, "/api/state", patch, Reply(200, "", Unset))
    /\ UNCHANGED <<pipeline, agent, arg, ret>>

\* max_rows=80, line 1207
max_rows == 80

\* lines 1180-1218: the reply to the upload req and _STATE after it
UploadBom(state, req) ==
    IF req.ctype # "multipart/form-data"
    THEN [state |-> state, out |-> Reply(400, "Expected multipart/form-data", Unset)]
    ELSE IF req.field = "absent"
    THEN [state |-> state,
          out |-> Reply(400, "No file field named 'bom' provided.", Unset)]
    ELSE IF req.field = "text"
    THEN [state |-> state, out |-> Reply(400, "Invalid upload.", Unset)]
    ELSE LET filename == IF req.filename # "" THEN req.filename ELSE "bom.xlsx"
             r == _parse_excel_preview(req.file_bytes, filename, max_rows)
         IN  IF r.raised
             THEN [state |-> state, out |-> Reply(400, r.exc, Unset)]
             ELSE [state |-> Uploaded(state, r.value.label,
                                      [columns |-> r.value.columns,
                                       rows |-> r.value.rows]),
                   out |-> Reply(200, "", r.value)]

\* POST /api/upload_bom, lines 1179-1219
Upload(t, req) ==
    /\ Free(t)
    /\ _STATE' = UploadBom(_STATE, req).state
    /\ Replied(t, "/api/upload_bom", req, UploadBom(_STATE, req).out)
    /\ UNCHANGED <<pipeline, agent, arg, ret>>

\* POST /api/activate_board, lines 1229-1234
ActivateBoard(t) ==
    /\ Free(t)
    /\ _STATE' = [_STATE EXCEPT !.board_ready = TRUE, !.aggregation = NotRun]
    /\ Replied(t, "/api/activate_board", Unset, Reply(200, "", Unset))
    /\ UNCHANGED <<pipeline, agent, arg, ret>>

\* lines 816-820
Summary(bw, cw, mpn_count) ==
    "Aggregation placeholder complete.\n\nWeighting: Board " \o ToString(bw)
        \o "% / Components " \o ToString(cw) \o "%\nUnique MPNs staged: "
        \o ToString(mpn_count) \o "\n"

\* variant of Activated: one side is enough
ActivatedEither(comps_ready, board_ready) == comps_ready \/ board_ready

\* comps_ready and board_ready, line 813
Activated(comps_ready, board_ready) == comps_ready /\ board_ready

\* POST /api/aggregate up to line 1238: _aggregate_placeholder reads _STATE
\* under the lock and raises or returns the summary
AggregateEvaluate(t) ==
    /\ Free(t)
    /\ LET bw == _STATE.boardWeight
           cw == 100 - bw
           comps_ready == _STATE.components_ready
           board_ready == _STATE.board_ready
           mpn_count == Len(_STATE.component_reflow)
       IN  IF ~Activated(comps_ready, board_ready)
           THEN post' = [post EXCEPT ![t] =
                    [NoPost EXCEPT
                        !.pc = "replied", !.path = "/api/aggregate",
                        !.comps_ready = comps_ready, !.board_ready = board_ready,
                        !.out = Reply(400, "Both Board and Components must be activated before aggregation.", Unset)]]
           ELSE post' = [post EXCEPT ![t] =
                    [NoPost EXCEPT
                        !.pc = "evaluated", !.path = "/api/aggregate",
                        !.comps_ready = comps_ready, !.board_ready = board_ready,
                        !.summary = Summary(bw, cw, mpn_count)]]
    /\ UNCHANGED <<pipeline, _STATE, agent, arg, ret>>

\* lines 1239-1241
AggregateStore(t) ==
    /\ post[t].pc = "evaluated"
    /\ _STATE' = [_STATE EXCEPT !.aggregation = [status |-> "complete",
                                                 summary |-> post[t].summary]]
    /\ post' = [post EXCEPT ![t] =
                    [@ EXCEPT !.pc = "replied",
                              !.out = Reply(200, "", post[t].summary)]]
    /\ UNCHANGED <<pipeline, agent, arg, ret>>

\* the reply has gone out and the request is over
PostDone(t) ==
    /\ post[t].pc = "replied"
    /\ post' = [post EXCEPT ![t] = NoPost]
    /\ UNCHANGED <<pipeline, _STATE, agent, arg, ret>>

\* the values a patch gives boardWeight: JSON numbers, strings and null
IntVal(n) == [type |-> "int", num |-> n, den |-> 1, str |-> ""]

FloatVal(n, d) == [type |-> "float", num |-> n, den |-> d, str |-> ""]

StrVal(s) == [type |-> "str", num |-> 0, den |-> 1, str |-> s]

NullVal == [type |-> "null", num |-> 0, den |-> 1, str |-> ""]

\* the patches of the requests: none or an empty body (line 1131 gives {}),
\* numbers inside and outside 0..100, 99.5, and texts
Patches ==
    {<<>>}
        \cup {[boardWeight |-> v] :
                v \in {IntVal(0 - 5), IntVal(50), IntVal(150), FloatVal(199, 2),
                       StrVal(" 7 "), StrVal("abc"), NullVal}}

\* a workbook load_workbook opens, with the rows of its first worksheet
Workbook(sheet) == [readable |-> TRUE, sheet |-> sheet]

\* bytes load_workbook rejects
NoWorkbook == [readable |-> FALSE, sheet |-> <<>>]

\* one part
SheetOne == << <<"Item", "MPN">>, <<"1", "ABC123">> >>

\* another part and a row without a part number, below an empty first row
\* and with an empty row between them
SheetTwo ==
    << <<"", "">>, <<"Item", " mpn ", "">>, <<"1", "abc123">>, <<"", " ">>,
       <<"2">> >>

\* Part instead of MPN
SheetWithoutMpn == << <<"Item", "Part">>, <<"1", "ABC123">> >>

\* a header row and nothing below it
SheetHeaderOnly == << <<"Item", "Part">> >>

\* no filled cell
SheetBlank == << <<"", " ">> >>

\* an upload (field: the form has no bom field, a bom field that is text,
\* or a bom field that is a file)
UploadOf(ctype, field, filename, file_bytes) ==
    [ctype |-> ctype, field |-> field, filename |-> filename,
     file_bytes |-> file_bytes]

\* the uploads that parse
GoodUploads ==
    {UploadOf("multipart/form-data", "file", "bom.xlsx", Workbook(s)) :
        s \in {SheetOne, SheetTwo, SheetWithoutMpn, SheetHeaderOnly}}

\* the uploads the handler rejects
BadUploads ==
    {UploadOf("application/json", "file", "bom.xlsx", Workbook(SheetOne)),
     UploadOf("multipart/form-data", "absent", "", NoWorkbook),
     UploadOf("multipart/form-data", "text", "", NoWorkbook),
     UploadOf("multipart/form-data", "file", "bom.csv", Workbook(SheetOne)),
     UploadOf("multipart/form-data", "file", "bom.xlsx", NoWorkbook),
     UploadOf("multipart/form-data", "file", "", Workbook(SheetBlank))}

Uploads == GoodUploads \cup BadUploads

\* what the search answers in the session: no link, or a datasheet
SessionSearchResponses ==
    {[kind |-> "ok", links |-> <<>>],
     [kind |-> "ok", links |-> <<"https://a.example/ds.PDF">>]}

\* no thread is serving a request
Quiet == \A t \in Threads : Free(t)

\* the requests of a session one after the other: a request is taken when
\* the one before it has been answered
NextSession ==
    \/ \E t \in Threads, patch \in Patches : Quiet /\ SetState(t, patch)
    \/ \E t \in Threads, req \in Uploads : Quiet /\ Upload(t, req)
    \/ \E t \in Threads : Quiet /\ ActivateBoard(t)
    \/ \E t \in Threads : Quiet /\ AggregateEvaluate(t)
    \/ \E t \in Threads : AggregateStore(t)
    \/ \E t \in Threads : PostDone(t)
    \/ \E t \in Threads : Quiet /\ AgentRead(t)
    \/ \E t \in Threads : AgentEmpty(t)
    \/ \E t \in Threads : AgentNoColumn(t)
    \/ \E t \in Threads : AgentUnique(t)
    \/ \E t \in Threads : AgentNext(t) /\ CallNA(t, AgentMpn(t)) /\ AgentCalls(t)
    \/ \E t \in Threads :
            AgentNext(t) /\ CallCached(t, AgentMpn(t)) /\ AgentCalls(t)
    \/ \E t \in Threads : AgentNext(t) /\ CallMiss(t, AgentMpn(t)) /\ AgentCalls(t)
    \/ \E t \in Threads, resp \in SessionSearchResponses :
            Search(t, resp) /\ UNCHANGED outer
    \/ \E t \in Threads, resp \in AgentDownloadResponses :
            Download(t, resp) /\ UNCHANGED outer
    \/ \E t \in Threads : Extract(t) /\ UNCHANGED outer
    \/ \E t \in Threads : Parse(t) /\ UNCHANGED outer
    \/ \E t \in Threads : AgentAppend(t)
    \/ \E t \in Threads : AgentStore(t)
    \/ \E t \in Threads : AgentReply(t)

SpecSession == Init /\ [][NextSession]_vars

(***************************************************************************)
(* The same handlers on the threads of the ThreadingHTTPServer (line       *)
(* 1262): a request is taken by any free thread whatever the other thread  *)
(* is doing, and the steps of the two requests interleave at every lock    *)
(* block and at every stage of the pipeline.                               *)
(***************************************************************************)
\* what the search answers while requests run side by side
HandlerSearchResponses == {[kind |-> "ok", links |-> <<"https://a.example/ds.PDF">>]}

\* the uploads while requests run side by side: a sheet with a part and a
\* row without part number, and a sheet without rows
HandlerUploads ==
    {UploadOf("multipart/form-data", "file", "bom.xlsx", Workbook(s)) :
        s \in {SheetTwo, SheetHeaderOnly}}

NextHandlers ==
    \/ \E t \in Threads, req \in HandlerUploads : Upload(t, req)
    \/ \E t \in Threads : ActivateBoard(t)
    \/ \E t \in Threads : AggregateEvaluate(t)
    \/ \E t \in Threads : AggregateStore(t)
    \/ \E t \in Threads : PostDone(t)
    \/ \E t \in Threads : Free(t) /\ AgentRead(t)
    \/ \E t \in Threads : AgentEmpty(t)
    \/ \E t \in Threads : AgentUnique(t)
    \/ \E t \in Threads : AgentNext(t) /\ CallNA(t, AgentMpn(t)) /\ AgentCalls(t)
    \/ \E t \in Threads :
            AgentNext(t) /\ CallCached(t, AgentMpn(t)) /\ AgentCalls(t)
    \/ \E t \in Threads : AgentNext(t) /\ CallMiss(t, AgentMpn(t)) /\ AgentCalls(t)
    \/ \E t \in Threads, resp \in HandlerSearchResponses :
            Search(t, resp) /\ UNCHANGED outer
    \/ \E t \in Threads, resp \in AgentDownloadResponses :
            Download(t, resp) /\ UNCHANGED outer
    \/ \E t \in Threads : Extract(t) /\ UNCHANGED outer
    \/ \E t \in Threads : Parse(t) /\ UNCHANGED outer
    \/ \E t \in Threads : AgentAppend(t)
    \/ \E t \in Threads : AgentStore(t)
    \/ \E t \in Threads : AgentReply(t)

SpecHandlers == Init /\ [][NextHandlers]_vars

(***************************************************************************)
(* The functions of the pipeline applied on their own: arg is the          *)
(* argument, drawn from a bounded set, and ret the result.                 *)
(***************************************************************************)
\* the server has started and no request has arrived
Fresh ==
    /\ NoPipeline
    /\ _STATE = InitialState(ExampleBom)
    /\ agent = [t \in Threads |-> NoAgent]
    /\ post = [t \in Threads |-> NoPost]
    /\ ret = NoCall

\* the function returns v
Apply(v) ==
    /\ ret = NoCall
    /\ ret' = [ok |-> TRUE, value |-> v]
    /\ UNCHANGED <<pipeline, _STATE, agent, post, arg>>

\* longest candidate list passed to _pick_pdf_link
MaxUrls == 3

\* candidate URLs: .pdf in capitals, no .pdf, .pdf in small letters, and
\* .pdf inside the path
CandidateUrls ==
    {"https://a.example/ds.PDF", "http://b.example/product",
     "http://c.example/x.pdf", "http://d.example/a.pdf.html"}

InitPick == Fresh /\ arg \in SeqsUpTo(CandidateUrls, MaxUrls)

\* line 1078
Pick == Apply(_pick_pdf_link(arg))

SpecPick == InitPick /\ [][Pick]_vars

\* longest sequence of result links in a search response harvested on its
\* own; it is past max_results
MaxHarvest == 7

InitHarvest == Fresh /\ arg \in SeqsUpTo(Hrefs, MaxHarvest)

\* line 1077, on a search request that was answered
Harvest == Apply(_search_candidate_urls([kind |-> "ok", links |-> arg]))

SpecHarvest == InitHarvest /\ [][Harvest]_vars

\* most pages of a document whose text is extracted on its own
MaxPages == 3

\* a page that fails to decode, a page without text, and pages with one
\* and with two lines of text
PageKinds ==
    {PageUndecodable, [ok |-> TRUE, lines |-> <<>>],
     [ok |-> TRUE, lines |-> <<PhTp>>], [ok |-> TRUE, lines |-> <<PhTal, PhCool>>]}

\* values of the parameter max_pages: below the page counts of the model,
\* and the one the pipeline passes
Caps == {1, 2, max_pages}

\* the documents: every sequence of pages, and a file PdfReader rejects
TextDocs ==
    {Pdf(0, "%PDF", pages) : pages \in SeqsUpTo(PageKinds, MaxPages)}
        \cup {[pad |-> 0, sig |-> "%PDF", readable |-> FALSE, pages |-> <<>>]}

InitText == Fresh /\ arg \in {[pdf |-> d, cap |-> c] : d \in TextDocs, c \in Caps}

\* line 1085
ToText == Apply(_pdf_to_text(arg.pdf, arg.cap))

SpecText == InitText /\ [][ToText]_vars

\* the phrases of the texts whose fields are extracted on their own:
\* temperatures, durations and rates, single values and ranges, under the
\* labels and with the unit spellings datasheets use
ValuePhrases ==
    {[label |-> l, a |-> v[1], b |-> v[2], unit |-> u] :
        l \in {"Tp", "Peak temperature", "Tp (" \o Degree \o "C)",
               "Storage temperature"},
        v \in {<<"260", "">>, <<"245", "260">>},
        u \in {Degree \o "C", "C", Degree \o " C", ""}}
    \cup
    {[label |-> l, a |-> v[1], b |-> v[2], unit |-> u] :
        l \in {"TAL", "Time above liquidus", "Time within 5 C of Tp", "Tp"},
        v \in {<<"1.5", "">>, <<"2", "">>, <<"30", "">>, <<"60", "90">>},
        u \in {"s", "sec", "seconds", "min", "mins", "minutes"}}
    \cup
    {[label |-> l, a |-> v[1], b |-> v[2], unit |-> u] :
        l \in {"Ramp-up rate", "Cooling rate"},
        v \in {<<"3", "">>, <<"1", "3">>},
        u \in {Degree \o "C/s", Degree \o "C / s", "C/min", Degree \o " C/s"}}

\* the texts: nothing, one phrase, and a heading before a phrase
InitFields ==
    /\ Fresh
    /\ arg \in {<<>>} \cup {<<p>> : p \in ValuePhrases}
                      \cup {<<PhReflow, p>> : p \in {PhTp, PhPeak, PhTal}}

\* line 1087
ToFields == Apply(_extract_reflow_fields_from_text(arg))

SpecFields == InitFields /\ [][ToFields]_vars

\* lines 1067-1077: where a call with mpn goes when the cache is cache: to
\* the mpn_na return, to the return of the cached result, or on to the
\* search
Entry(cache, m) ==
    IF _is_na_mpn(strip(m)) THEN "mpn_na"
    ELSE IF CacheHit(cache, strip(m)) THEN "cached"
    ELSE "search"

\* longest identifier spelled out letter by letter
MaxIdentLen == 3

\* the letters of the placeholders na, n/a and -, in both cases, and a blank
IdentChars == {" ", "n", "a", "N", "A", "/", "-"}

RECURSIVE Concat(_)
\* the strings of q in a row
Concat(q) == IF q = <<>> THEN "" ELSE Head(q) \o Concat(Tail(q))

\* every string over IdentChars up to MaxIdentLen, the identifiers of the
\* pipeline's callers, and more spellings around the longer placeholders
ClassifiedIdents ==
    {Concat(q) : q \in SeqsUpTo(IdentChars, MaxIdentLen)} \cup Idents
        \cup {"tbd", "TBD", " tBd ", "tbd1", "unknown", "Unknown\t", "unknowns",
              "N/A", "n/a.", "none", "null", "0", "--"}

\* the cache when empty and when it holds the result of ABC123
ClassifiedCaches == {<<>>, Put(<<>>, "ABC123", ExceptResult("ABC123"))}

InitClassify ==
    /\ Fresh
    /\ arg \in {[mpn |-> m, cache |-> c] : m \in ClassifiedIdents,
                                             c \in ClassifiedCaches}

\* lines 1067-1077
Classify == Apply([na |-> _is_na_mpn(arg.mpn), entry |-> Entry(arg.cache, arg.mpn)])

SpecClassify == InitClassify /\ [][Classify]_vars

\* most cells of a header row
MaxHeader == 3

\* the cells of the header rows: a name, the name with the suffix the
\* de-duplication gives a second occurrence, the name padded, an empty cell
HeaderCells == {"A", "A_2", " A ", ""}

\* the worksheet with the header row header and one row of data below it
SheetUnder(header) == <<header, <<"1", "2", "3">>>>

InitColumns == Fresh /\ arg \in SeqsUpTo(HeaderCells, MaxHeader)

ToColumns ==
    Apply(_parse_excel_preview(Workbook(SheetUnder(arg)), "bom.xlsx", max_rows))

SpecColumns == InitColumns /\ [][ToColumns]_vars

(***************************************************************************)
(* Properties.                                                             *)
(***************************************************************************)
Done(t) == pc[t] = "done"

\* the stages the invocation in flight on t has run
StagesRun(t) == {trace[t][i].stage : i \in 1..Len(trace[t])}

\* the invocation on t has run the stage and the stage ended this way
Ended(t, stage, outcomes) ==
    \E i \in 1..Len(trace[t]) :
        trace[t][i].stage = stage /\ trace[t][i].outcome \in outcomes

Exceptions == {"timeout", "urlerror", "ValueError", "PdfReadError"}

\* the identifier is not-applicable, in the words of the specification
NotApplicable(m) ==
    \/ strip(m) = ""
    \/ lower(strip(m)) \in {"na", "n/a", "tbd", "unknown", "-"}

AllNA(profile) ==
    /\ DOMAIN profile = {"tp_c", "time_within_5c_of_tp_s", "tal_s", "ramp_up_c_per_s",
                         "cool_down_c_per_s"}
    /\ \A k \in DOMAIN profile : profile[k] = "NA"

\* C1: whatever the identifier and whatever each stage does (returns or
\* raises), no exception leaves _scour_datasheet_and_extract, and what it
\* returns is one result record whose status is one of the five.
C1_AlwaysReturnsARecord ==
    \A t \in Threads :
        /\ pc[t] # "raised"
        /\ Done(t) =>
              /\ DOMAIN res[t] = {"mpn", "status", "reflow", "evidence"}
              /\ res[t].status \in
                    {"ok", "mpn_na", "not_found", "no_reflow_info", "error_or_blocked"}

\* an invocation has returned although its text extraction raised
C1_Witness ==
    \E t \in Threads : Done(t) /\ Ended(t, "extract", Exceptions)

\* C2: a not-applicable identifier gets status mpn_na and an all-NA profile,
\* and no request at all is issued for it.
C2_NotApplicableNoNetwork ==
    \A t \in Threads :
        (Done(t) /\ NotApplicable(mpn[t])) =>
            /\ res[t].status = "mpn_na"
            /\ AllNA(res[t].reflow)
            /\ gets[t] = <<>>
            /\ trace[t] = <<>>

\* the placeholder " n/a " (padded) and "Tbd" (mixed case) have been answered
C2_Witness ==
    \E t \in Threads : Done(t) /\ mpn[t] \in {" n/a ", "Tbd"} /\ res[t].status = "mpn_na"

\* C3: over sequential invocations every stage runs at most once for an
\* identifier, an invocation that finds the identifier already resolved
\* runs no stage and issues no request, and every invocation of a usable
\* identifier returns the result its first invocation returned.
C3_CacheIdempotence ==
    /\ \A k \in Keys : \A g \in StageNames : runs[k][g] <= 1
    /\ \A t \in Threads :
          (Done(t) /\ ~NotApplicable(mpn[t])) =>
              /\ strip(mpn[t]) \in DOMAIN first
              /\ res[t] = first[strip(mpn[t])]
              /\ (trace[t] # <<>> => \A g \in StagesRun(t) : runs[strip(mpn[t])][g] = 1)

\* a later invocation, here with the identifier padded differently, has
\* returned an ok result without running a stage
C3_Witness ==
    \E t \in Threads :
        /\ Done(t) /\ mpn[t] = " ABC123\t"
        /\ trace[t] = <<>> /\ gets[t] = <<>>
        /\ res[t].status = "ok"
        /\ runs["ABC123"]["parse"] = 1

\* C4: when the resolver returns an empty list the invocation ends with
\* not_found and no download is attempted.
C4_EmptyListIsNotFound ==
    \A t \in Threads :
        (Ended(t, "search", {"returned"}) /\ urls[t] = <<>>) =>
            /\ Done(t)
            /\ res[t].status = "not_found"
            /\ "download" \notin StagesRun(t)
            /\ Len(gets[t]) = 1

\* the search was answered and left no candidate
C4_Witness ==
    \E t \in Threads :
        /\ Done(t) /\ Ended(t, "search", {"returned"}) /\ urls[t] = <<>>
        /\ gets[t][1].result = "ok"

\* the request on t numbered i failed with a network error or a timeout
RequestFailed(t, i, errors) == i <= Len(gets[t]) /\ gets[t][i].result \in errors

\* C5 as stated: when the search request fails, the resolver returns an
\* empty list and raises nothing.
C5_SearchFailureYieldsEmptyList ==
    \A t \in Threads :
        RequestFailed(t, 1, {"timeout", "urlerror"}) =>
            /\ Ended(t, "search", {"returned"})
            /\ urls[t] = <<>>

\* C5 as amended: when the search request fails, the resolver raises that
\* error to the orchestrator, whose except clause catches it: the
\* invocation returns error_or_blocked, with no download, and no exception
\* reaches the caller of the pipeline.
C5_SearchFailureIsRaisedAndCaught ==
    \A t \in Threads :
        RequestFailed(t, 1, {"timeout", "urlerror"}) =>
            /\ trace[t] = <<[stage |-> "search", outcome |-> gets[t][1].result]>>
            /\ Done(t)
            /\ res[t].status = "error_or_blocked"
            /\ Len(gets[t]) = 1

\* the search request was refused and the invocation has returned
C5_Witness ==
    \E t \in Threads : Done(t) /\ RequestFailed(t, 1, {"urlerror"})

\* C6: an invocation whose search or download request timed out ends with
\* error_or_blocked, with the very record any other network error in that
\* stage gives.
C6_TimeoutIsErrorOrBlocked ==
    \A t \in Threads :
        \A i \in 1..Len(gets[t]) :
            gets[t][i].result \in {"timeout", "urlerror"} =>
                /\ Done(t)
                /\ res[t] = [mpn |-> strip(mpn[t]), status |-> "error_or_blocked",
                             reflow |-> [tp_c |-> "NA",
                                         time_within_5c_of_tp_s |-> "NA",
                                         tal_s |-> "NA", ramp_up_c_per_s |-> "NA",
                                         cool_down_c_per_s |-> "NA"],
                             evidence |-> [source_url |-> "NA", snippet |-> "NA"]]

\* the download of a picked candidate timed out
C6_Witness ==
    \E t \in Threads :
        Done(t) /\ RequestFailed(t, 2, {"timeout"}) /\ gets[t][2].url = pick[t]

\* a body was read for the picked candidate
BodyRead(t) == Len(gets[t]) >= 2 /\ gets[t][2].result = "ok"

\* the body begins with the signature %PDF
BeginsWithSignature(d) == d.pad = 0 /\ d.sig = "%PDF"

\* the first 512 bytes of the body, lowercased, contain %pdf
SignatureWithinHead(d) ==
    d.sig \in {"%PDF", "%pdf"} /\ d.pad + 4 <= 512

NoTextOrFieldStage(t) == StagesRun(t) \cap {"extract", "parse"} = {}

\* C7 as stated: a body that does not begin with %PDF gives
\* error_or_blocked and neither the text extractor nor the field engine runs.
C7_NotBeginningWithSignatureIsRejected ==
    \A t \in Threads :
        (BodyRead(t) /\ ~BeginsWithSignature(data[t])) =>
            /\ NoTextOrFieldStage(t)
            /\ Done(t) /\ res[t].status = "error_or_blocked"

\* C7 as amended: a body whose first 512 bytes, compared case-insensitively,
\* do not contain %PDF gives error_or_blocked, never ok, and neither the
\* text extractor nor the field engine runs.
C7_NoSignatureInHeadIsRejected ==
    \A t \in Threads :
        (BodyRead(t) /\ ~SignatureWithinHead(data[t])) =>
            /\ NoTextOrFieldStage(t)
            /\ Done(t) /\ res[t].status = "error_or_blocked"

\* a body whose signature ends one byte past the first 512 was rejected,
\* for a candidate that looks like a PDF
C7_Witness ==
    \E t \in Threads :
        /\ Done(t) /\ BodyRead(t)
        /\ data[t].pad = 509 /\ data[t].sig = "%PDF"
        /\ pick[t] = "https://a.example/ds.PDF"
        /\ res[t].status = "error_or_blocked"

\* the patterns of each field of the profile
PatternsOf ==
    [tp_c |-> tp_patterns, time_within_5c_of_tp_s |-> within5_patterns,
     tal_s |-> tal_patterns, ramp_up_c_per_s |-> ramp_up_patterns,
     cool_down_c_per_s |-> cool_down_patterns]

\* some pattern of the field matches somewhere in the text
FieldMatched(k, txt) ==
    \E n \in 1..Len(PatternsOf[k]) : \E i \in 1..Len(txt) :
        PatternMatches(PatternsOf[k][n], txt[i])

\* C8: after a download and a text extraction that succeeded, the status is
\* ok exactly when some field is not NA and no_reflow_info exactly when all
\* five are NA; in an ok result a field is NA exactly when none of its
\* patterns matched, whatever the other fields are.
C8_StatusFollowsFields ==
    \A t \in Threads :
        (Done(t) /\ Ended(t, "extract", {"returned"})) =>
            /\ res[t].status \in {"ok", "no_reflow_info"}
            /\ res[t].status = "ok" <=> (\E k \in DOMAIN fields[t] : fields[t][k] # "NA")
            /\ res[t].status = "no_reflow_info" <=> AllNA(fields[t])
            /\ res[t].status = "ok" =>
                  \A k \in DOMAIN PatternsOf :
                      res[t].reflow[k] = "NA" <=> ~FieldMatched(k, text[t])

\* an ok result with the peak temperature and the time above liquidus
\* found and the other three fields NA
C8_Witness ==
    \E t \in Threads :
        /\ Done(t) /\ res[t].status = "ok"
        /\ res[t].reflow.tp_c # "NA" /\ res[t].reflow.tal_s # "NA"
        /\ res[t].reflow.ramp_up_c_per_s = "NA"
        /\ res[t].reflow.cool_down_c_per_s = "NA"
        /\ res[t].reflow.time_within_5c_of_tp_s = "NA"

\* C9: a result whose status is not ok, returned or cached, has all five
\* fields NA.
C9_FailuresAreAllNA ==
    /\ \A t \in Threads :
          (Done(t) /\ res[t].status # "ok") => AllNA(res[t].reflow)
    /\ \A k \in DOMAIN _SCRAPE_CACHE :
          _SCRAPE_CACHE[k].status # "ok" => AllNA(_SCRAPE_CACHE[k].reflow)

\* a no_reflow_info result is in the cache, for a document that was read
C9_Witness ==
    \E k \in DOMAIN _SCRAPE_CACHE :
        /\ _SCRAPE_CACHE[k].status = "no_reflow_info"
        /\ _SCRAPE_CACHE[k].evidence.source_url # "NA"

\* C10: an invocation issues at most one search request and at most one
\* download request, the latter for the picked candidate, and runs no
\* stage twice; after a failed download no other candidate is requested.
C10_NoRetryNoFallback ==
    \A t \in Threads :
        /\ Len(gets[t]) <= 2
        /\ Len(gets[t]) >= 1 => gets[t][1].url = SearchUrl(strip(mpn[t]))
        /\ Len(gets[t]) = 2 => gets[t][2].url = pick[t]
        /\ \A i, j \in 1..Len(trace[t]) : trace[t][i].stage = trace[t][j].stage => i = j
        /\ Ended(t, "download", Exceptions) => Done(t)

\* the download of the picked candidate failed while the list had a second
\* candidate, and the invocation has returned
C10_Witness ==
    \E t \in Threads :
        /\ Done(t) /\ Ended(t, "download", Exceptions)
        /\ Len(urls[t]) >= 2 /\ urls[t][1] # urls[t][2]
        /\ Len(gets[t]) = 2

\* C11: in every interleaving of pipeline invocations by concurrent handler
\* threads, each identifier is resolved at most once, the pipeline writes
\* the cache at most once per key, and the cached result of a key is the
\* result of its first write.
C11_ResolvedAndWrittenOnce ==
    \A k \in Keys :
        /\ runs[k]["search"] <= 1
        /\ writes[k] <= 1
        /\ k \in DOMAIN _SCRAPE_CACHE => _SCRAPE_CACHE[k] = first[k]

\* a component-agent run on thread t has stored its results and not yet replied
AgentDone(t) == agent[t].pc = "done" /\ agent[t].rows # <<>>

\* C12: the component agent deduplicates identifiers by case-insensitive
\* comparison before it invokes the pipeline: identifiers that differ only
\* in letter case give a single invocation and a single row.
C12_CaseInsensitiveDedup ==
    \A t \in Threads :
        AgentDone(t) =>
            /\ \A i, j \in 1..Len(agent[t].calls) :
                   lower(agent[t].calls[i]) = lower(agent[t].calls[j]) => i = j
            /\ \A i, j \in 1..Len(_STATE.component_reflow) :
                   lower(_STATE.component_reflow[i].mpn)
                       = lower(_STATE.component_reflow[j].mpn) => i = j

\* the identifier the agent reads from an MPN cell: the trimmed cell, and
\* NA for a cell that is empty
Identifier(cell) == IF strip(cell) = "" THEN "NA" ELSE strip(cell)

\* the identifiers of the rows the run on t read
Identifiers(t) ==
    {Identifier(Get(agent[t].rows[i], "Mpn")) : i \in 1..Len(agent[t].rows)}

\* the records are in case-insensitive lexicographic order of identifier
InCaseInsensitiveOrder(records) ==
    \A i, j \in 1..Len(records) :
        i < j => ~StrLess(lower(records[j].mpn), lower(records[i].mpn))

StoredMpns == [i \in 1..Len(_STATE.component_reflow) |-> _STATE.component_reflow[i].mpn]

\* the stored record of identifier m has this status
StoredStatus(m, status) ==
    \A i \in 1..Len(_STATE.component_reflow) :
        _STATE.component_reflow[i].mpn = m
            => _STATE.component_reflow[i].status = status

\* of the keys of the model, only ABC123 has gone through pipeline stages
OnlyABC123Resolved ==
    /\ runs["ABC123"]["search"] >= 1
    /\ \A k \in Keys \ {"ABC123"} : \A g \in StageNames : runs[k][g] = 0
    /\ DOMAIN _SCRAPE_CACHE = {"ABC123"}

\* C14 as stated: for the identifiers ABC123, ABC123, empty, TBD the output
\* has exactly 3 rows, the row of the empty identifier first, then ABC123,
\* then TBD; only ABC123 goes through the pipeline stages and the rows of
\* the empty identifier and of TBD have status mpn_na.
C14_ThreeRowsEmptyFirst ==
    \A t \in Threads :
        AgentDone(t) =>
            /\ StoredMpns = <<"", "ABC123", "TBD">>
            /\ OnlyABC123Resolved
            /\ StoredStatus("", "mpn_na")
            /\ StoredStatus("TBD", "mpn_na")

\* C14, amended: the output has exactly 3 rows, in the order ABC123, NA,
\* TBD, where the row of the empty identifier carries the identifier NA;
\* only ABC123 goes through the pipeline stages and the rows NA and TBD
\* have status mpn_na.
C14_ThreeRowsEmptyAsNA ==
    \A t \in Threads :
        AgentDone(t) =>
            /\ StoredMpns = <<"ABC123", "NA", "TBD">>
            /\ OnlyABC123Resolved
            /\ StoredStatus("NA", "mpn_na")
            /\ StoredStatus("TBD", "mpn_na")
            /\ ~StoredStatus("ABC123", "mpn_na")

\* the run on the scenario's sheet is complete and the datasheet of ABC123
\* gave a profile
C14_Witness ==
    \E t \in Threads :
        /\ AgentDone(t)
        /\ agent[t].rows = BomOf(ScenarioCells).rows
        /\ agent[t].calls = <<"ABC123", "NA", "TBD">>
        /\ Len(_STATE.component_reflow) = 3
        /\ _STATE.component_reflow[1].status = "ok"

\* the position of the first element of q that satisfies has
FirstWith(q, has(_)) ==
    CHOOSE i \in 1..Len(q) : has(q[i]) /\ \A j \in 1..(i - 1) : ~has(q[j])

\* the URL contains the substring .pdf
HasPdf(u) == contains(u, ".pdf")

\* the URL contains .pdf in any letter case
HasPdfAnyCase(u) == contains(lower(u), ".pdf")

\* C15 as stated: the picked URL is the first URL of the list containing
\* the substring .pdf if there is one, otherwise the first URL of the list,
\* and none when the list is empty; the picked URL is a member of the list.
C15_FirstPdfElseFirst ==
    ret.ok =>
        /\ arg = <<>> => ret.value = None
        /\ arg # <<>> => \E i \in 1..Len(arg) : ret.value = arg[i]
        /\ (\E i \in 1..Len(arg) : HasPdf(arg[i]))
               => ret.value = arg[FirstWith(arg, HasPdf)]
        /\ (arg # <<>> /\ \A i \in 1..Len(arg) : ~HasPdf(arg[i]))
               => ret.value = arg[1]

\* C15, amended: the picked URL is the first URL of the list containing
\* .pdf in any letter case (.PDF counts) if there is one, otherwise the
\* first URL of the list, and none when the list is empty; the picked URL
\* is a member of the list.
C15_FirstPdfAnyCaseElseFirst ==
    ret.ok =>
        /\ arg = <<>> => ret.value = None
        /\ arg # <<>> => \E i \in 1..Len(arg) : ret.value = arg[i]
        /\ (\E i \in 1..Len(arg) : HasPdfAnyCase(arg[i]))
               => ret.value = arg[FirstWith(arg, HasPdfAnyCase)]
        /\ (arg # <<>> /\ \A i \in 1..Len(arg) : ~HasPdfAnyCase(arg[i]))
               => ret.value = arg[1]

\* a URL with .PDF in capitals was picked over the URL before it
C15_Witness ==
    /\ ret.ok
    /\ Len(arg) = 3
    /\ ~HasPdfAnyCase(arg[1])
    /\ ~HasPdf(arg[2])
    /\ HasPdf(arg[3])
    /\ ret.value = arg[2]

\* the links of q that begin with http, in order
Qualifying(q) == SelectSeq(q, LAMBDA h : startswith(h, "http"))

\* C16: the resolver's output holds only links that begin with http, in
\* response order, and at most 6 of them: the first 6 qualifying links.
C16_FirstSixHttpLinksInOrder ==
    ret.ok =>
        /\ ~ret.value.raised
        /\ Len(ret.value.value) <= 6
        /\ \A i \in 1..Len(ret.value.value) : startswith(ret.value.value[i], "http")
        /\ ret.value.value = SubSeq(Qualifying(arg), 1, Min(6, Len(Qualifying(arg))))

\* the response had seven qualifying links and the seventh was dropped
C16_Witness ==
    /\ ret.ok
    /\ Len(Qualifying(arg)) = 7
    /\ Len(ret.value.value) = 6

RECURSIVE NewlineJoin(_)
\* the strings of q joined by newlines
NewlineJoin(q) ==
    IF q = <<>> THEN ""
    ELSE IF Len(q) = 1 THEN q[1]
    ELSE q[1] \o "\n" \o NewlineJoin(Tail(q))

\* the text of each page of the document among the first min(pageCount,
\* cap) that decodes, in document order
DecodedTexts(a) ==
    LET firstPages == SubSeq(a.pdf.pages, 1, Min(Len(a.pdf.pages), a.cap))
        decoded == SelectSeq(firstPages, LAMBDA pg : pg.ok)
    IN  [i \in 1..Len(decoded) |-> TextSource(decoded[i].lines)]

\* C17 as stated: the result is the newline-joined text of the pages among
\* the first min(pageCount, cap) that decode, in document order; a page
\* whose decode fails contributes nothing and ends nothing; the result is a
\* string, empty when there is no text, and never an error.
C17_JoinOfDecodedPages ==
    ret.ok /\ arg.pdf.readable =>
        /\ ~ret.value.raised
        /\ TextSource(ret.value.value) = NewlineJoin(DecodedTexts(arg))

\* C17, amended: for a document that PdfReader opens, the result is the
\* newline-joined text of the pages among the first min(pageCount, cap)
\* that decode to a non-empty text, in document order; a page whose decode
\* fails, and a page that decodes to the empty text, contributes nothing
\* (no separator either) and ends nothing; the result is a string, empty
\* when there is no text, and never an error.
C17_JoinOfNonEmptyDecodedPages ==
    ret.ok /\ arg.pdf.readable =>
        /\ ~ret.value.raised
        /\ TextSource(ret.value.value)
               = NewlineJoin(SelectSeq(DecodedTexts(arg), LAMBDA txt : txt # ""))

\* a document with more pages than the cap, whose first page fails to
\* decode and whose second page gave the text
C17_Witness ==
    /\ ret.ok
    /\ Len(arg.pdf.pages) = 3
    /\ arg.cap = 2
    /\ ~arg.pdf.pages[1].ok
    /\ arg.pdf.pages[2].lines # <<>>
    /\ arg.pdf.pages[3].lines # <<>>
    /\ ret.value.value = arg.pdf.pages[2].lines

\* what the first pattern of field k that matches captures in the text: the
\* first number, the second number ("" when there is none) and the unit
\* token
Captured(k, txt) ==
    LET matches(n) == \E i \in 1..Len(txt) : PatternMatches(PatternsOf[k][n], txt[i])
        n == CHOOSE n \in 1..Len(PatternsOf[k]) :
                    matches(n) /\ \A m \in 1..(n - 1) : ~matches(m)
        i == CHOOSE i \in 1..Len(txt) :
                    /\ PatternMatches(PatternsOf[k][n], txt[i])
                    /\ \A j \in 1..(i - 1) : ~PatternMatches(PatternsOf[k][n], txt[j])
    IN  [a |-> txt[i].a, b |-> txt[i].b,
         unit |-> strip(CaptureUnit(PatternsOf[k][n].units, txt[i].unit))]

\* the fields that hold what find_range_value returned (the peak
\* temperature with its unit supplied when the pattern captured none)
RangeFields == {"tp_c", "time_within_5c_of_tp_s", "tal_s"}

\* "<low><dash><high> <unit>" for a range and "<value> <unit>" for a
\* single value
Rendering(k, c, dash) ==
    LET unit == IF k = "tp_c" /\ c.unit = "" THEN Degree \o "C" ELSE c.unit
    IN  IF c.b # "" THEN c.a \o dash \o c.b \o " " \o unit
        ELSE c.a \o " " \o unit

TimesSixty ==
    [m \in {"1.5", "2", "30"} |->
        CASE m = "1.5" -> "90" [] m = "2" -> "120" [] m = "30" -> "1800"]

\* C19: a duration captured in minutes is converted to seconds, times 60:
\* "TAL: 1.5 min" renders "90 s" and "TAL: 2 min" renders "120 s".
C19_MinutesRenderedInSeconds ==
    ret.ok =>
        \A k \in {"time_within_5c_of_tp_s", "tal_s"} :
            (/\ FieldMatched(k, arg)
             /\ Captured(k, arg).b = ""
             /\ lower(Captured(k, arg).unit) \in {"min", "mins", "minutes"})
                => ret.value[k] = TimesSixty[Captured(k, arg).a] \o " s"

\* C20: an identifier is not-applicable exactly when its trimmed value is
\* empty or, lowercased, one of na, n/a, tbd, unknown, -; every other
\* identifier is usable and enters the pipeline proper: the cache lookup
\* and, unless the cache has it, the search.
C20_PlaceholdersExactly ==
    ret.ok =>
        /\ ret.value.na <=> NotApplicable(arg.mpn)
        /\ NotApplicable(arg.mpn) => ret.value.entry = "mpn_na"
        /\ ~NotApplicable(arg.mpn) =>
               ret.value.entry = IF strip(arg.mpn) \in DOMAIN arg.cache
                                 THEN "cached" ELSE "search"

\* an identifier that only resembles a placeholder went on to the search
C20_Witness ==
    /\ ret.ok
    /\ arg.mpn = "n a"
    /\ ~ret.value.na
    /\ ret.value.entry = "search"

\* some column's trimmed name is mpn in some letter case
HasMpnColumn(cols) == \E i \in 1..Len(cols) : lower(strip(cols[i])) = "mpn"

\* the three fields of the session a component-agent run writes
ComponentSide(state) ==
    <<state.components_ready, state.component_reflow, state.aggregation>>

\* C21: a component-agent run fails only when the BOM it read has no MPN
\* column, and whenever the BOM it read has no MPN column: the failure
\* carries the error message to the caller, the run has passed no identifier
\* to the pipeline, and from the read to the reply no step changes
\* components_ready, component_reflow or aggregation.
C21_NoMpnColumnFailsWithoutEffect ==
    [][\A t \in Threads :
        /\ agent'[t].pc = "raised" =>
                /\ ~HasMpnColumn(agent'[t].cols)
                /\ agent'[t].calls = <<>>
                /\ agent'[t].out = "BOM does not contain an 'MPN' column."
        /\ (agent[t].pc = "read" /\ ~HasMpnColumn(agent[t].cols)) =>
                /\ agent'[t].pc \in {"read", "raised"}
                /\ ComponentSide(_STATE') = ComponentSide(_STATE)
                /\ pipeline' = pipeline
        /\ agent[t].pc = "raised" =>
                /\ agent'[t].pc \in {"raised", "idle"}
                /\ ComponentSide(_STATE') = ComponentSide(_STATE)
                /\ pipeline' = pipeline]_vars

\* thread t is serving a request on path and has sent its reply
Answered(t, path) == post[t].pc = "replied" /\ post[t].path = path

\* C22: POST /api/aggregate goes on to write only if board_ready and
\* components_ready are both true when _aggregate_placeholder reads them;
\* otherwise it replies with an error and _STATE stays as it is.  The status
\* becomes complete only in the write of a request that evaluated both as
\* true, and a request that was refused changes nothing up to its end.
C22_AggregationGated ==
    [][\A t \in Threads :
        /\ (post[t].pc = "idle" /\ post'[t].path = "/api/aggregate") =>
                /\ _STATE' = _STATE
                /\ IF _STATE.board_ready /\ _STATE.components_ready
                   THEN post'[t].pc = "evaluated"
                   ELSE /\ post'[t].pc = "replied"
                        /\ post'[t].out.status = 400
                        /\ post'[t].out.error # ""
        /\ (/\ _STATE'.aggregation.status = "complete"
            /\ _STATE'.aggregation # _STATE.aggregation) =>
                \E u \in Threads :
                    /\ post[u].pc = "evaluated"
                    /\ post[u].comps_ready /\ post[u].board_ready
                    /\ post'[u].pc = "replied" /\ post'[u].out.ok
        /\ (Answered(t, "/api/aggregate") /\ ~post[t].out.ok) =>
                _STATE' = _STATE]_vars

C22_Witness ==
    \E t \in Threads :
        /\ Answered(t, "/api/aggregate")
        /\ post[t].out.ok
        /\ _STATE.aggregation.status = "complete"
        /\ _STATE.component_reflow # <<>>

\* the stages in the order of lines 1077-1087
StageOrder == <<"search", "download", "extract", "parse">>

\* the stages thread t's invocation has run are the first stages of
\* StageOrder, each once, and the invocation is at the next one
InStageOrder(t) ==
    /\ Len(trace[t]) <= Len(StageOrder)
    /\ \A i \in 1..Len(trace[t]) : trace[t][i].stage = StageOrder[i]
    /\ pc[t] \in StageNames =>
            /\ Len(trace[t]) < Len(StageOrder)
            /\ pc[t] = StageOrder[Len(trace[t]) + 1]

\* C23: when every request is answered or times out, an invocation that has
\* started its stages reaches done with a result; at every moment the stages
\* it has run are an initial part of search, download, extract, parse, none
\* of them run twice, and it stands at the stage after them.
C23_TerminatesInStageOrder ==
    /\ [](\A t \in Threads : InStageOrder(t))
    /\ \A t \in Threads :
           (pc[t] \in StageNames) ~> (pc[t] = "done" /\ res[t] # Unset)

C23_Witness ==
    \E t \in Threads :
        /\ pc[t] = "done"
        /\ res[t] # Unset
        /\ [i \in 1..Len(trace[t]) |-> trace[t][i].stage] = StageOrder

\* C24: whatever requests run side by side, a session whose aggregation
\* status is complete has board_ready and components_ready both true.
C24_CompleteImpliesBothReady ==
    _STATE.aggregation.status = "complete" =>
        _STATE.board_ready /\ _STATE.components_ready

\* the identifiers of the BOM the session holds, as a run extracts them
LoadedIdentifiers ==
    IF _STATE.bom.rows = <<>> \/ ~HasMpnColumn(_STATE.bom.columns) THEN {}
    ELSE SetOf(Mpns(_STATE.bom.rows, MpnCol(_STATE.bom.columns)))

\* C25: whatever run and upload interleave, when components_ready is true
\* component_reflow holds one result for each identifier of the BOM the
\* session holds now, and no other (and the BOM has an MPN column or no row).
C25_ReadyResultsAreOfLoadedBom ==
    _STATE.components_ready =>
        /\ _STATE.bom.rows # <<>> => HasMpnColumn(_STATE.bom.columns)
        /\ Len(_STATE.component_reflow) = Cardinality(LoadedIdentifiers)
        /\ {_STATE.component_reflow[i].mpn :
                i \in 1..Len(_STATE.component_reflow)} = LoadedIdentifiers

\* the statuses of an invocation that found no profile
Failures == {"not_found", "no_reflow_info", "error_or_blocked"}

\* C26: once the first invocation for a usable identifier has ended with
\* not_found, no_reflow_info or error_or_blocked, that result is the cache
\* entry of the identifier, the search has run for it that one time only,
\* and every invocation for it that is done has returned that result; one
\* that ran no stage made no request, although the responses on offer
\* include successful ones.
C26_FailuresAreCached ==
    \A k \in Keys :
        (k \in DOMAIN first /\ first[k].status \in Failures) =>
            /\ k \in DOMAIN _SCRAPE_CACHE
            /\ _SCRAPE_CACHE[k] = first[k]
            /\ runs[k]["search"] = 1
            /\ \A t \in Threads :
                  (Done(t) /\ mpn_norm[t] = k) =>
                      /\ res[t] = first[k]
                      /\ trace[t] = <<>> => gets[t] = <<>>

\* a later invocation has returned a cached error_or_blocked without a
\* stage or a request, and the cache holds a no_reflow_info as well
C26_Witness ==
    \E t \in Threads :
        /\ Done(t) /\ trace[t] = <<>> /\ gets[t] = <<>>
        /\ ~NotApplicable(mpn[t])
        /\ res[t].status = "error_or_blocked"
        /\ \E k \in DOMAIN _SCRAPE_CACHE :
               _SCRAPE_CACHE[k].status = "no_reflow_info"

\* C27: every key of the cache is a trimmed identifier that is not
\* not-applicable, its record carries the key as mpn and a status other
\* than mpn_na, and no result was ever written for a not-applicable key.
C27_CacheWellFormed ==
    /\ \A k \in DOMAIN _SCRAPE_CACHE :
          /\ strip(k) = k
          /\ ~NotApplicable(k)
          /\ _SCRAPE_CACHE[k].mpn = k
          /\ _SCRAPE_CACHE[k].status \in Statuses \ {"mpn_na"}
    /\ \A k \in Keys : NotApplicable(k) => writes[k] = 0

\* the cache holds the record written for ABC123, and an invocation for a
\* padded placeholder has returned mpn_na
C27_Witness ==
    /\ "ABC123" \in DOMAIN _SCRAPE_CACHE
    /\ first["ABC123"].mpn = "ABC123"
    /\ \E t \in Threads : Done(t) /\ mpn[t] = " n/a " /\ res[t].status = "mpn_na"
    /\ writes["ABC123"] = 1

\* C28: the step that serves an upload answers ok exactly for a multipart
\* request whose bom field is a file that parses; then the session holds the
\* parsed BOM, components_ready is false, component_reflow is empty and
\* aggregation is not_run, with board_ready and boardWeight as before.  A
\* request that is refused is answered with status 400 and _STATE is as
\* before.
C28_UploadResetsComponentSide ==
    [][\A t \in Threads :
        (post[t].pc = "idle" /\ post'[t].path = "/api/upload_bom") =>
            /\ post'[t].req \in GoodUploads => post'[t].out.ok
            /\ post'[t].req \in BadUploads => ~post'[t].out.ok
            /\ IF post'[t].out.ok
               THEN /\ _STATE'.bom = [columns |-> post'[t].out.body.columns,
                                      rows |-> post'[t].out.body.rows]
                    /\ _STATE'.bomLabel = post'[t].out.body.label
                    /\ _STATE'.components_ready = FALSE
                    /\ _STATE'.component_reflow = <<>>
                    /\ _STATE'.aggregation = NotRun
                    /\ _STATE'.board_ready = _STATE.board_ready
                    /\ _STATE'.boardWeight = _STATE.boardWeight
               ELSE /\ post'[t].out.status = 400
                    /\ _STATE' = _STATE]_vars

\* an upload has been accepted in a session whose board is activated and
\* whose slider was moved
C28_Witness ==
    \E t \in Threads :
        /\ Answered(t, "/api/upload_bom")
        /\ post[t].out.ok
        /\ _STATE.bom.rows # <<>>
        /\ _STATE.board_ready
        /\ _STATE.boardWeight = 50

\* C29: when the aggregation status is complete, the stored summary is the
\* one _aggregate_placeholder gives for the session as it is now: it reports
\* the current boardWeight, its complement to 100, and the current length
\* of component_reflow.
C29_SummaryMatchesSession ==
    _STATE.aggregation.status = "complete" =>
        _STATE.aggregation.summary =
            Summary(_STATE.boardWeight, 100 - _STATE.boardWeight,
                    Len(_STATE.component_reflow))

\* what int() and the clamp make of the patches of the model, from the
\* language's definition of int(): -5 gives 0, 50 gives 50, 150 gives 100,
\* 99.5 gives 99, " 7 " gives 7; "abc" and null do not convert, and a patch
\* without boardWeight asks for nothing
ExpectedWeight(patch, before) ==
    CASE patch = [boardWeight |-> IntVal(0 - 5)] -> 0
      [] patch = [boardWeight |-> IntVal(50)] -> 50
      [] patch = [boardWeight |-> IntVal(150)] -> 100
      [] patch = [boardWeight |-> FloatVal(199, 2)] -> 99
      [] patch = [boardWeight |-> StrVal(" 7 ")] -> 7
      [] OTHER -> before

\* C30: boardWeight is always an integer from 0 to 100; the step that serves
\* POST /api/state sets it to the patch's value clamped to that range, leaves
\* it as it was when the patch has no boardWeight or one that int() rejects,
\* changes no other field of _STATE and answers ok.
C30_BoardWeightClamped ==
    /\ [](_STATE.boardWeight \in 0..100)
    /\ [][\A t \in Threads :
            (post[t].pc = "idle" /\ post'[t].path = "/api/state") =>
                /\ post'[t].out.ok
                /\ _STATE'.boardWeight =
                        ExpectedWeight(post'[t].req, _STATE.boardWeight)
                /\ [_STATE' EXCEPT !.boardWeight = _STATE.boardWeight] = _STATE]_vars

\* a patch of 150 has been served in a session whose components and board
\* are activated
C30_Witness ==
    \E t \in Threads :
        /\ Answered(t, "/api/state")
        /\ post[t].req = [boardWeight |-> IntVal(150)]
        /\ _STATE.boardWeight = 100
        /\ _STATE.components_ready /\ _STATE.board_ready
        /\ _STATE.component_reflow # <<>>

\* C31: the column names _parse_excel_preview returns for a header row are
\* pairwise distinct, and every row dictionary has one key for each column.
C31_ColumnNamesDistinct ==
    (ret.ok /\ ~ret.value.raised) =>
        LET columns == ret.value.value.columns
            rows == ret.value.value.rows
        IN  /\ \A i, j \in 1..Len(columns) : i # j => columns[i] # columns[j]
            /\ \A k \in 1..Len(rows) :
                  Cardinality(DOMAIN rows[k]) = Len(columns)

====
